---- MODULE Spec2Model ----
(***************************************************************************)
(* Instagram publishing orchestrator (InstagramService.createPost), the    *)
(* credential lifecycle manager (InstagramOAuthService) and the remote     *)
(* publishing client (InstagramApiService), as a state machine.            *)
(*                                                                         *)
(* Every `await` of the source is a scheduling point: a repository save is *)
(* issued (the write is in flight) and committed by the database in a      *)
(* later step; a remote call is issued and answered in a later step.       *)
(* Time is counted in days.  Persistence writes are taken to complete      *)
(* (spec section 1: the persistence engine provides durable create, read   *)
(* and update).                                                            *)
(***************************************************************************)
EXTENDS Integers, Sequences, FiniteSets, TLC

\* ------------------------------------------------------------------ bounds
\* Number of createPost flows that may be in flight at once.
NumPipes == 2
\* Number of createPost requests explored.
MaxRequests == 2
\* Largest configured base polling attempt count explored.
MaxBaseAttempts == 1
\* The configured base polling attempt count is at least -MaxDeficit.
MaxDeficit == 1
\* Number of distinct remote users that may connect.
MaxUsers == 2
\* Number of distinct profile snapshots the remote platform may report.
MaxProfiles == 2
\* Number of OAuth callbacks explored.
MaxConnects == 2
\* Number of createPost requests explored when persistence writes may be rejected.
MaxFailRequests == 4
\* Number of OAuth callbacks that may be in flight at once.
NumCallbacks == 2

\* ------------------------------------------------------- program constants
BAD_GATEWAY == 502
NOT_FOUND == 404
\* sevenDaysMs, in days
SevenDays == 7
\* the reels multiplier of waitForContainerReady
ReelsMultiplier == 3

Callbacks == 1..NumCallbacks
Pipes == 1..NumPipes
RemoteUsers == 1..MaxUsers

\* null of the source: ids are 1-tuples or pairs, null is the empty tuple
Null == << >>
\* undefined (an omitted optional request field)
Undefined == "undefined"
\* an optional field the remote profile response leaves out
Missing == << "undefined", 0 >>
\* the empty string
EmptyString == << "", 0 >>
\* a query parameter that is not set
NotSet == << "not set" >>

\* enum PostStatus
PENDING == "pending"
CONTAINER_CREATED == "container_created"
PROCESSING == "processing"
CONTAINER_FINISHED == "container_finished"
PUBLISHED == "published"
FAILED == "failed"

\* enum MediaType
IMAGE == "image"
REELS == "reels"

\* type ContainerStatusCode
ContainerStatusCode == {"EXPIRED", "ERROR", "FINISHED", "IN_PROGRESS", "PUBLISHED"}

\* expires_in of the remote token responses, in days
ExpiresIn == {3, 7, 60}

VARIABLES
    maxPollingAttempts, \* InstagramService.maxPollingAttempts (configuration)
    requests,           \* number of createPost requests received
    now,                \* Date.now(), in days (the clock stands still while the flows run)
    accounts,           \* table instagram_accounts: row i has id i
    tokensIssued,       \* number of credentials the remote platform has issued
    connects,           \* number of OAuth callbacks handled
    posts,              \* table instagram_posts: row i has id i
    hist,               \* hist[i]: the status values durably written to post i, in order
    pc,                 \* pc[p]: position of pipeline p in createPost
    dto,                \* dto[p]: the request of pipeline p
    acct,               \* acct[p]: the account object held by pipeline p
    post,               \* post[p]: the in-memory InstagramPost entity of pipeline p
    attempt,            \* attempt[p]: loop variable of waitForContainerReady
    maxAtt,             \* maxAtt[p]: maxAttempts of waitForContainerReady
    writes,             \* writes[p]: saves of pipeline p issued and not yet committed
    result,             \* result[p]: what createPost returned or threw to its caller
    calls,              \* calls[p]: remote calls and sleeps pipeline p has issued
    lastCode,           \* lastCode[p]: outcome of the latest status poll of pipeline p
    allInProgress,      \* allInProgress[p]: every poll so far returned IN_PROGRESS
    failedStep,         \* failedStep[p]: the step whose failure entered the catch block
    returned,           \* returned[p]: the ids and the refreshed credential the remote
                        \* platform returned to pipeline p
    remote,             \* remote platform: containers created, media published
    oauth               \* oauth[c]: OAuth callback c handled step by step: its position,
                        \* the steps begun, its locals and the error it threw

vars == << maxPollingAttempts, requests, now, accounts, tokensIssued, connects, posts, hist,
           pc, dto, acct, post, attempt, maxAtt, writes, result, calls, lastCode,
           allInProgress, failedStep, returned, remote, oauth >>

pipeVars == << pc, dto, acct, post, attempt, maxAtt, writes, result, calls, lastCode,
               allInProgress, failedStep, returned >>

\* ---------------------------------------------------------------- values

\* An Error message: the template and the values interpolated into it.
Msg(tmpl, container, code, n, remoteMsg) ==
    [tmpl |-> tmpl, container |-> container, code |-> code, n |-> n, remote |-> remoteMsg]

\* errorMessage: null
NoMsg == Msg("null", Null, "", 0, "")

\* `Container ${id} reached terminal status: ${status_code}`
TerminalStatusMsg(container, code) == Msg("reached terminal status", container, code, 0, "")

\* `Container ${id} did not finish within ${maxAttempts} attempts`
DidNotFinishMsg(container, n) == Msg("did not finish within", container, "", n, "")

\* `Container creation failed: ${error.error.message}`
CreationFailedMsg == Msg("Container creation failed", Null, "", 0, "remote error")

\* `Container status check failed: ${error.error.message}`
StatusCheckFailedMsg == Msg("Container status check failed", Null, "", 0, "remote error")

\* `Media publish failed: ${error.error.message}`
PublishFailedMsg == Msg("Media publish failed", Null, "", 0, "remote error")

\* `Token refresh failed: ${data.error.message}`
RefreshFailedMsg == Msg("Token refresh failed", Null, "", 0, "remote error")

\* `Instagram account ${id} not found`
AccountNotFoundMsg == Msg("Instagram account not found", Null, "", 0, "")

NoAccount ==
    [id |-> 0, igUserId |-> 0, username |-> Null, name |-> Null, profilePictureUrl |-> Null,
     accessToken |-> Null, tokenExpiresAt |-> 0, isActive |-> FALSE]

NoPost ==
    [id |-> 0, mediaType |-> Undefined, mediaUrl |-> Null, caption |-> Null,
     status |-> PENDING, containerId |-> Null,
     instagramMediaId |-> Null, errorMessage |-> NoMsg, accountId |-> 0]

NoResult ==
    [kind |-> "none", statusCode |-> 0, postId |-> 0, detail |-> NoMsg,
     status |-> "", instagramMediaId |-> Null]

\* credential: the access token the container-create call carried
\* `new URLSearchParams(...)` of a container-create request not built yet
NoParams ==
    [access_token |-> NotSet, image_url |-> NotSet, video_url |-> NotSet,
     media_type |-> NotSet, caption |-> NotSet]

NoCalls ==
    [refresh |-> 0, create |-> 0, status |-> 0, publish |-> 0, sleep |-> 0, credential |-> Null,
     params |-> NoParams, sent |-> {}]

\* wire: how the remote platform answered the latest container-create or publish call
NoReturned ==
    [container |-> Null, media |-> Null, credential |-> Null, expires_in |-> 0, wire |-> "none"]

\* the credential the remote platform issues as its n-th
Token(n) == << "token", n >>

\* The profile the remote platform reports for remote user u, in its n-th variant: the
\* username differs between the variants, name and picture are optional.
InstagramUserProfile(u, n) ==
    [id |-> u,
     username |-> << "username", n >>,
     name |-> IF n = 1 THEN << "name", n >> ELSE Missing,
     profile_picture_url |-> IF n = 1 THEN Missing ELSE << "picture", n >>]

ProfileVariants == 1..MaxProfiles

\* CreatePostModel.mediaUrl of the n-th request: every request has its own URL
MediaUrl(n) == << "url", n >>

\* CreatePostModel.caption of the n-th request: optional, given in every other request
Caption(n) == IF n % 2 = 1 THEN << "caption", n >> ELSE Missing

\* `value ?? null`
OrNull(value) == IF value = Missing THEN Null ELSE value

\* no profile fetched yet
NoProfile == [id |-> 0, username |-> Null, name |-> Missing, profile_picture_url |-> Missing]

\* `Missing OAuth code`
MissingCodeMsg == Msg("Missing OAuth code", Null, "", 0, "")

\* `Short-lived token exchange failed: ${shortLived.error.message}`
ShortLivedFailedMsg == Msg("Short-lived token exchange failed", Null, "", 0, "remote error")

\* `Long-lived token exchange failed: ${longLived.error.message}`
LongLivedFailedMsg == Msg("Long-lived token exchange failed", Null, "", 0, "remote error")

\* `Failed to fetch profile: ${data.error.message}`
ProfileFailedMsg == Msg("Failed to fetch profile", Null, "", 0, "remote error")

\* the QueryFailedError of an insert that violates `@Column({ unique: true }) igUserId`
UniqueViolationMsg == Msg("duplicate key value violates unique constraint", Null, "", 0, "")

\* an OAuth callback not begun; envelope is the remote step that was answered with an
\* error envelope
NoCallback ==
    [pc |-> "idle", steps |-> << >>, envelope |-> "none", error |-> NoMsg,
     accessToken |-> Null, expiresAt |-> 0, profile |-> NoProfile, existing |-> NoAccount]

\* ------------------------------------------------------------------ Init

\* The state after construction, the configured base attempt count drawn from base.
InitWith(base) ==
    /\ maxPollingAttempts \in base
    /\ now = 0
    /\ requests = 0
    /\ accounts = << >>
    /\ tokensIssued = 0
    /\ connects = 0
    /\ posts = << >>
    /\ hist = << >>
    /\ pc = [p \in Pipes |-> "idle"]
    /\ dto = [p \in Pipes |-> [accountId |-> 0, mediaType |-> Undefined, mediaUrl |-> Null,
                               caption |-> Missing]]
    /\ acct = [p \in Pipes |-> NoAccount]
    /\ post = [p \in Pipes |-> NoPost]
    /\ attempt = [p \in Pipes |-> 0]
    /\ maxAtt = [p \in Pipes |-> 0]
    /\ writes = [p \in Pipes |-> << >>]
    /\ result = [p \in Pipes |-> NoResult]
    /\ calls = [p \in Pipes |-> NoCalls]
    /\ lastCode = [p \in Pipes |-> "none"]
    /\ allInProgress = [p \in Pipes |-> TRUE]
    /\ failedStep = [p \in Pipes |-> "none"]
    /\ returned = [p \in Pipes |-> NoReturned]
    /\ remote = [containers |-> {}, media |-> {}]
    /\ oauth = [c \in Callbacks |-> NoCallback]

Init == InitWith(0..MaxBaseAttempts)

\* ------------------------------------------------- credential lifecycle

\* a lookup that never finds the row
FindByIgUserIdNever(u) == {}

\* accountRepo.findOne({ where: { igUserId } }): the row ids with that remote user id
FindByIgUserId(u) == {i \in DOMAIN accounts : accounts[i].igUserId = u}

\* an upsert that leaves the active flag of an existing row as it is
UpsertAccountKeepsFlag(profile, accessToken, expiresAt) ==
    IF FindByIgUserId(profile.id) # {}
    THEN LET i == CHOOSE j \in FindByIgUserId(profile.id) : TRUE
         IN  [accounts EXCEPT ![i].username = profile.username,
                              ![i].name = OrNull(profile.name),
                              ![i].profilePictureUrl = OrNull(profile.profile_picture_url),
                              ![i].accessToken = accessToken,
                              ![i].tokenExpiresAt = expiresAt]
    ELSE Append(accounts,
                [id |-> Len(accounts) + 1, igUserId |-> profile.id,
                 username |-> profile.username, name |-> OrNull(profile.name),
                 profilePictureUrl |-> OrNull(profile.profile_picture_url),
                 accessToken |-> accessToken, tokenExpiresAt |-> expiresAt,
                 isActive |-> TRUE])

\* InstagramOAuthService.upsertAccount: the accounts table after the upsert
UpsertAccount(profile, accessToken, expiresAt) ==
    IF FindByIgUserId(profile.id) # {}
    THEN LET i == CHOOSE j \in FindByIgUserId(profile.id) : TRUE
         IN  [accounts EXCEPT ![i].username = profile.username,
                              ![i].name = OrNull(profile.name),
                              ![i].profilePictureUrl = OrNull(profile.profile_picture_url),
                              ![i].accessToken = accessToken,
                              ![i].tokenExpiresAt = expiresAt,
                              ![i].isActive = TRUE]
    ELSE Append(accounts,
                [id |-> Len(accounts) + 1, igUserId |-> profile.id,
                 username |-> profile.username, name |-> OrNull(profile.name),
                 profilePictureUrl |-> OrNull(profile.profile_picture_url),
                 accessToken |-> accessToken, tokenExpiresAt |-> expiresAt,
                 isActive |-> TRUE])

\* InstagramController.handleCallback: code exchange, profile fetch, upsertAccount.
\* A remote error envelope in the exchange or the profile fetch throws before the upsert.
HandleCallback(profile, expiresIn, remoteOk) ==
    /\ connects < MaxConnects
    /\ connects' = connects + 1
    /\ IF remoteOk
       THEN /\ tokensIssued' = tokensIssued + 1
            /\ accounts' = UpsertAccount(profile, Token(tokensIssued + 1), now + expiresIn)
       ELSE UNCHANGED << tokensIssued, accounts >>
    /\ UNCHANGED << oauth, maxPollingAttempts, now, requests, posts, hist, remote >>
    /\ UNCHANGED pipeVars

\* The bodies the remote platform answers the OAuth calls with: the typed body or the
\* error envelope.
OAuthBodies == {"OK", "ENVELOPE"}

\* a test that finds no error in any body
ErrorInNever(body) == FALSE

\* `'error' in shortLived`, `'error' in longLived`, `'error' in data`
ErrorIn(body) == body = "ENVELOPE"

\* the frame of the steps of an OAuth callback
callbackFrame == << maxPollingAttempts, now, requests, posts, hist, remote >>

\* callback c throws: nothing further runs
CallbackThrows(c, message, step) ==
    oauth' = [oauth EXCEPT ![c].pc = "done", ![c].error = message, ![c].envelope = step]

\* InstagramController.handleCallback is called in slot c (a slot whose callback ended
\* may serve the next one): `if (!code) throw`, else exchangeCodeForToken sends the
\* short-lived exchange.
ExchangeCodeForToken(c, code) ==
    /\ oauth[c].pc \in {"idle", "done"}
    /\ connects < MaxConnects
    /\ connects' = connects + 1
    /\ oauth' = [oauth EXCEPT ![c] =
                    IF code = Undefined
                      THEN [NoCallback EXCEPT !.pc = "done", !.error = MissingCodeMsg]
                      ELSE [NoCallback EXCEPT !.pc = "shortLived", !.steps = << "shortLived" >>]]
    /\ UNCHANGED << accounts, tokensIssued >>
    /\ UNCHANGED callbackFrame
    /\ UNCHANGED pipeVars

\* The short-lived exchange is answered: an error envelope throws, else the long-lived
\* upgrade is sent.
ShortLivedResponse(c, body) ==
    /\ oauth[c].pc = "shortLived"
    /\ IF ErrorIn(body)
       THEN CallbackThrows(c, ShortLivedFailedMsg, "shortLived")
       ELSE oauth' = [oauth EXCEPT ![c].pc = "longLived",
                                   ![c].steps = Append(@, "longLived"),
                                   ![c].envelope = IF body = "ENVELOPE" THEN "shortLived" ELSE @]
    /\ UNCHANGED << accounts, tokensIssued, connects >>
    /\ UNCHANGED callbackFrame
    /\ UNCHANGED pipeVars

\* The long-lived upgrade is answered: an error envelope throws, else
\* exchangeCodeForToken returns the credential with its expiry and getProfile is sent.
LongLivedResponse(c, body, expiresIn) ==
    /\ oauth[c].pc = "longLived"
    /\ IF ErrorIn(body)
       THEN /\ CallbackThrows(c, LongLivedFailedMsg, "longLived")
            /\ UNCHANGED tokensIssued
       ELSE /\ tokensIssued' = IF body = "OK" THEN tokensIssued + 1 ELSE tokensIssued
            /\ oauth' = [oauth EXCEPT ![c].pc = "getProfile",
                                      ![c].steps = Append(@, "getProfile"),
                                      ![c].envelope = IF body = "ENVELOPE" THEN "longLived" ELSE @,
                                      ![c].accessToken =
                                          IF body = "OK" THEN Token(tokensIssued + 1) ELSE Null,
                                      ![c].expiresAt = IF body = "OK" THEN now + expiresIn ELSE 0]
    /\ UNCHANGED << accounts, connects >>
    /\ UNCHANGED callbackFrame
    /\ UNCHANGED pipeVars

\* The profile fetch is answered: an error envelope throws, else upsertAccount is called
\* with the profile.
GetProfileResponse(c, body, profile) ==
    /\ oauth[c].pc = "getProfile"
    /\ IF ErrorIn(body)
       THEN CallbackThrows(c, ProfileFailedMsg, "getProfile")
       ELSE oauth' = [oauth EXCEPT ![c].pc = "upsertAccount",
                                   ![c].steps = Append(@, "upsertAccount"),
                                   ![c].envelope = IF body = "ENVELOPE" THEN "getProfile" ELSE @,
                                   ![c].profile = IF body = "OK" THEN profile ELSE NoProfile]
    /\ UNCHANGED << accounts, tokensIssued, connects >>
    /\ UNCHANGED callbackFrame
    /\ UNCHANGED pipeVars

\* upsertAccount: `accountRepo.findOne({ where: { igUserId: profile.id } })` has returned
UpsertAccountFindOne(c) ==
    /\ oauth[c].pc = "upsertAccount"
    /\ oauth' = [oauth EXCEPT ![c].pc = "save",
                              ![c].existing =
                                  IF FindByIgUserId(oauth[c].profile.id) # {}
                                    THEN accounts[CHOOSE j \in FindByIgUserId(oauth[c].profile.id) : TRUE]
                                    ELSE NoAccount]
    /\ UNCHANGED << accounts, tokensIssued, connects >>
    /\ UNCHANGED callbackFrame
    /\ UNCHANGED pipeVars

\* an insert that no constraint rejects
ViolatesUniqueNever(u) == FALSE

\* `@Column({ unique: true }) igUserId`: an insert with remote user id u is rejected
\* when a row with that remote user id exists
ViolatesUnique(u) == FindByIgUserId(u) # {}

\* upsertAccount: the found entity is updated and saved, else a new row is inserted; the
\* insert fails when a row with the remote user id exists by now (unique igUserId).
UpsertAccountSave(c) ==
    /\ oauth[c].pc = "save"
    /\ LET o == oauth[c]
           entity == [o.existing EXCEPT !.username = o.profile.username,
                                        !.name = OrNull(o.profile.name),
                                        !.profilePictureUrl = OrNull(o.profile.profile_picture_url),
                                        !.accessToken = o.accessToken,
                                        !.tokenExpiresAt = o.expiresAt,
                                        !.isActive = TRUE]
       IN  IF o.existing # NoAccount
             THEN /\ accounts' = [accounts EXCEPT ![o.existing.id] = entity]
                  /\ oauth' = [oauth EXCEPT ![c].pc = "done"]
             ELSE IF ViolatesUnique(o.profile.id)
             THEN /\ CallbackThrows(c, UniqueViolationMsg, oauth[c].envelope)
                  /\ UNCHANGED accounts
             ELSE /\ accounts' = Append(accounts,
                                        [entity EXCEPT !.id = Len(accounts) + 1,
                                                       !.igUserId = o.profile.id])
                  /\ oauth' = [oauth EXCEPT ![c].pc = "done"]
    /\ UNCHANGED << tokensIssued, connects >>
    /\ UNCHANGED callbackFrame
    /\ UNCHANGED pipeVars

\* a lookup by id that ignores the active flag
IsExistingAccount(id) == id \in DOMAIN accounts

\* accountRepo.findOne({ where: { id, isActive: true } }) of getAccount
IsActiveAccount(id) == id \in DOMAIN accounts /\ accounts[id].isActive

\* getAccount(id) throws NotFoundException
GetAccountThrows(id) == ~IsActiveAccount(id)

\* a listing that returns every row
ListAccountsAll == {accounts[i] : i \in DOMAIN accounts}

\* InstagramOAuthService.listAccounts: accountRepo.find({ where: { isActive: true } })
ListAccounts == {accounts[i] : i \in {j \in DOMAIN accounts : accounts[j].isActive}}

\* a deactivation that removes the row when it is the newest one
DeactivateAccountRemoves(id) ==
    /\ IF GetAccountThrows(id)
       THEN UNCHANGED accounts
       ELSE IF id = Len(accounts)
              THEN accounts' = SubSeq(accounts, 1, Len(accounts) - 1)
              ELSE accounts' = [accounts EXCEPT ![id].isActive = FALSE]
    /\ UNCHANGED << oauth, maxPollingAttempts, now, requests, tokensIssued, connects, posts, hist, remote >>
    /\ UNCHANGED pipeVars

\* InstagramOAuthService.deactivateAccount: getAccount throws not-found (nothing is
\* written) unless the account is active, else the row is saved with isActive false
DeactivateAccount(id) ==
    /\ IF GetAccountThrows(id)
       THEN UNCHANGED accounts
       ELSE accounts' = [accounts EXCEPT ![id].isActive = FALSE]
    /\ UNCHANGED << oauth, maxPollingAttempts, now, requests, tokensIssued, connects, posts, hist, remote >>
    /\ UNCHANGED pipeVars

\* the boundary of exactly seven days taken as near expiry
IsNearExpiryInclusive(account) == account.tokenExpiresAt - now <= SevenDays

\* isNearExpiry of refreshTokenIfNeeded
IsNearExpiry(account) == account.tokenExpiresAt - now < SevenDays

\* ------------------------------------------------------------ persistence

\* a generator that hands out the same id again
NewPostIdRepeated == IF posts = << >> THEN Len(posts) + 1 ELSE Len(posts)

\* the id the database generates for a new post row
NewPostId == Len(posts) + 1

\* a save that is not awaited: the flow goes on while the write is in flight
SaveNotAwaited(p) == TRUE

\* a save whose promise never resolves
SaveNeverResumes(p) == FALSE

\* `await this.postRepository.save(post)`: the flow resumes once the write is committed
SaveAwaited(p) == writes[p] = << >>

\* postRepository.save(post) is issued: the entity as it is now goes to the database
IssueSave(p, entity) == writes' = [writes EXCEPT ![p] = Append(@, entity)]

\* The database commits the oldest write in flight of pipeline p: an insert when the
\* entity has no id yet (the generated id is set on the entity), an update otherwise.
DbCommit(p) ==
    /\ writes[p] # << >>
    /\ LET w == Head(writes[p])
       IN  IF w.id = 0
           THEN /\ posts' = Append(posts, [w EXCEPT !.id = NewPostId])
                /\ hist' = Append(hist, << w.status >>)
                /\ post' = [post EXCEPT ![p].id = NewPostId]
           ELSE /\ posts' = [posts EXCEPT ![w.id] = w]
                /\ hist' = [hist EXCEPT ![w.id] = Append(@, w.status)]
                /\ UNCHANGED post
    /\ writes' = [writes EXCEPT ![p] = Tail(@)]
    /\ UNCHANGED << oauth, maxPollingAttempts, now, requests, accounts, tokensIssued, connects, remote >>
    /\ UNCHANGED << pc, dto, acct, attempt, maxAtt, result, calls, lastCode,
                    allInProgress, failedStep, returned >>

\* ------------------------------------------------------------ createPost

dbVars == << oauth, maxPollingAttempts, now, requests, accounts, tokensIssued, connects, posts, hist >>
pollVars == << lastCode, allInProgress >>

\* `dto.mediaType ?? MediaType.IMAGE`
DefaultMediaType(mediaType) == IF mediaType = Undefined THEN IMAGE ELSE mediaType

\* reels polled with the budget of images
MaxAttemptsNoMultiplier(mediaType) == maxPollingAttempts

\* maxAttempts of waitForContainerReady
MaxAttempts(mediaType) ==
    IF mediaType = REELS THEN maxPollingAttempts * ReelsMultiplier ELSE maxPollingAttempts

\* an off-by-one loop test
LoopContinuesInclusive(att, max) == att <= max

\* `attempt < maxAttempts` of the polling loop
LoopContinues(att, max) == att < max

\* The answers of the remote platform to a container-create or a publish call: a success
\* status with the typed body, a non-success status with an error envelope, and a
\* success status whose body is an error envelope.  The wire contract has the first two.
WireContract == {"OK", "HTTP_ERROR"}
WireOutcomes == WireContract \cup {"ENVELOPE_200"}

\* `if (!response.ok) throw` of createMediaContainer
CreateContainerThrows(outcome) == outcome = "HTTP_ERROR"

\* `if (!response.ok) throw` of publishContainer
PublishThrows(outcome) == outcome = "HTTP_ERROR"

\* `data as CreateContainerResponse` / `data as PublishMediaResponse`, then `.id`: the id
\* of the typed body; an error envelope has no id (undefined, the column keeps null)
ResponseId(outcome, id) == IF outcome = "OK" THEN id ELSE Null

\* a status check that never throws
StatusCheckNeverThrows(outcome) == FALSE

\* `if (!response.ok) throw` of getContainerStatus: the outcome is no status code
StatusCheckThrows(outcome) == outcome = "HTTP_ERROR"

\* PUBLISHED taken for FINISHED
IsFinishedOrPublished(code) == code = "FINISHED" \/ code = "PUBLISHED"

\* `status.status_code === 'FINISHED'`
IsFinished(code) == code = "FINISHED"

\* EXPIRED not recognised as terminal
IsTerminalErrorOnly(code) == code = "ERROR"

\* `status.status_code === 'ERROR' || status.status_code === 'EXPIRED'`
IsTerminal(code) == code = "ERROR" \/ code = "EXPIRED"

\* the status set, the container id forgotten
MarkContainerCreatedNoId(entity, id) == [entity EXCEPT !.status = CONTAINER_CREATED]

\* `post.containerId = container.id; post.status = PostStatus.CONTAINER_CREATED`
MarkContainerCreated(entity, id) ==
    [entity EXCEPT !.containerId = id, !.status = CONTAINER_CREATED]

\* the processing status never set
MarkProcessingSkipped(entity) == entity

\* the processing status set, the caption cleared
MarkProcessingNoCaption(entity) == [entity EXCEPT !.status = PROCESSING, !.caption = Null]

\* `post.status = PostStatus.PROCESSING`
MarkProcessing(entity) == [entity EXCEPT !.status = PROCESSING]

\* `post.status = PostStatus.CONTAINER_FINISHED`
MarkContainerFinished(entity) == [entity EXCEPT !.status = CONTAINER_FINISHED]

\* the status set, the media id forgotten
MarkPublishedNoId(entity, id) == [entity EXCEPT !.status = PUBLISHED]

\* `post.instagramMediaId = published.id; post.status = PostStatus.PUBLISHED`
MarkPublished(entity, id) == [entity EXCEPT !.instagramMediaId = id, !.status = PUBLISHED]

\* the status set, the message not stored
MarkFailedNoMessage(entity, message) == [entity EXCEPT !.status = FAILED]

\* `post.status = PostStatus.FAILED; post.errorMessage = error.message`
MarkFailed(entity, message) == [entity EXCEPT !.status = FAILED, !.errorMessage = message]

\* toResponse(post), returned to the caller
ToResponse(entity) ==
    [kind |-> "returned", statusCode |-> 0, postId |-> entity.id, detail |-> NoMsg,
     status |-> entity.status, instagramMediaId |-> entity.instagramMediaId]

\* an exception thrown to the caller of createPost
Thrown(kind, statusCode, postId, detail) ==
    [kind |-> kind, statusCode |-> statusCode, postId |-> postId, detail |-> detail,
     status |-> "", instagramMediaId |-> Null]

\* the gateway error without the post id
BadGatewayNoPostId(entity) == Thrown("HttpException", BAD_GATEWAY, 0, entity.errorMessage)

\* `throw new HttpException({ message, detail: post.errorMessage, postId: post.id }, BAD_GATEWAY)`
BadGateway(entity) == Thrown("HttpException", BAD_GATEWAY, entity.id, entity.errorMessage)

\* createPost is called in flow p (a flow that returned may serve the next request: the
\* locals of the earlier call are gone); getAccount(dto.accountId) throws
\* NotFoundException unless the account exists and is active.
CreatePost(p, request, limit) ==
    /\ pc[p] \in {"idle", "done"}
    /\ requests < limit
    /\ requests' = requests + 1
    /\ dto' = [dto EXCEPT ![p] = request]
    /\ IF GetAccountThrows(request.accountId)
       THEN /\ pc' = [pc EXCEPT ![p] = "done"]
            /\ result' = [result EXCEPT
                            ![p] = Thrown("NotFoundException", NOT_FOUND, 0, AccountNotFoundMsg)]
            /\ acct' = [acct EXCEPT ![p] = NoAccount]
       ELSE /\ acct' = [acct EXCEPT ![p] = accounts[request.accountId]]
            /\ pc' = [pc EXCEPT ![p] = "refreshTokenIfNeeded"]
            /\ result' = [result EXCEPT ![p] = NoResult]
    /\ post' = [post EXCEPT ![p] = NoPost]
    /\ attempt' = [attempt EXCEPT ![p] = 0]
    /\ maxAtt' = [maxAtt EXCEPT ![p] = 0]
    /\ calls' = [calls EXCEPT ![p] = NoCalls]
    /\ lastCode' = [lastCode EXCEPT ![p] = "none"]
    /\ allInProgress' = [allInProgress EXCEPT ![p] = TRUE]
    /\ failedStep' = [failedStep EXCEPT ![p] = "none"]
    /\ returned' = [returned EXCEPT ![p] = NoReturned]
    /\ UNCHANGED << writes, remote >>
    /\ UNCHANGED << oauth, maxPollingAttempts, now, accounts, tokensIssued, connects, posts, hist >>

\* createPost is called with the URL and the caption of the next request, as long as
\* fewer than limit requests were made
GetAccountWithin(p, accountId, mediaType, limit) ==
    CreatePost(p, [accountId |-> accountId, mediaType |-> mediaType,
                   mediaUrl |-> MediaUrl(requests + 1), caption |-> Caption(requests + 1)],
               limit)

\* createPost is called, one of MaxRequests requests
GetAccount(p, accountId, mediaType) == GetAccountWithin(p, accountId, mediaType, MaxRequests)

\* refreshTokenIfNeeded: the account as it is when not near expiry, else the refresh
\* request is sent with the current credential.
RefreshTokenIfNeeded(p) ==
    /\ pc[p] = "refreshTokenIfNeeded"
    /\ IF IsNearExpiry(acct[p])
       THEN /\ pc' = [pc EXCEPT ![p] = "refresh_access_token"]
            /\ calls' = [calls EXCEPT ![p].refresh = @ + 1]
       ELSE /\ pc' = [pc EXCEPT ![p] = "create"]
            /\ UNCHANGED calls
    /\ UNCHANGED << dto, acct, post, attempt, maxAtt, writes, result, failedStep, returned,
                    remote >>
    /\ UNCHANGED pollVars
    /\ UNCHANGED dbVars

\* a refresh whose error envelope is ignored: createPost goes on with the account as read
RefreshResponseIgnoresError(p, remoteOk, expiresIn) ==
    /\ pc[p] = "refresh_access_token"
    /\ pc' = [pc EXCEPT ![p] = IF remoteOk THEN "save_account" ELSE "create"]
    /\ tokensIssued' = IF remoteOk THEN tokensIssued + 1 ELSE tokensIssued
    /\ acct' = IF remoteOk
                THEN [acct EXCEPT ![p].accessToken = Token(tokensIssued + 1),
                                  ![p].tokenExpiresAt = now + expiresIn]
                ELSE acct
    /\ returned' = IF remoteOk
                    THEN [returned EXCEPT ![p].credential = Token(tokensIssued + 1),
                                          ![p].expires_in = expiresIn]
                    ELSE returned
    /\ UNCHANGED << oauth, maxPollingAttempts, now, requests, accounts, connects, posts, hist >>
    /\ UNCHANGED << dto, post, attempt, maxAtt, writes, calls, failedStep, remote, result >>
    /\ UNCHANGED pollVars

\* The refresh response arrives: an error envelope throws (outside the try block of
\* createPost), else credential and expiry are replaced and the account save is issued.
RefreshResponse(p, remoteOk, expiresIn) ==
    /\ pc[p] = "refresh_access_token"
    /\ IF remoteOk
       THEN /\ tokensIssued' = tokensIssued + 1
            /\ acct' = [acct EXCEPT ![p].accessToken = Token(tokensIssued + 1),
                                    ![p].tokenExpiresAt = now + expiresIn]
            /\ returned' = [returned EXCEPT ![p].credential = Token(tokensIssued + 1),
                                            ![p].expires_in = expiresIn]
            /\ pc' = [pc EXCEPT ![p] = "save_account"]
            /\ UNCHANGED result
       ELSE /\ pc' = [pc EXCEPT ![p] = "done"]
            /\ result' = [result EXCEPT ![p] = Thrown("Error", 0, 0, RefreshFailedMsg)]
            /\ UNCHANGED << tokensIssued, acct, returned >>
    /\ UNCHANGED << oauth, maxPollingAttempts, now, requests, accounts, connects, posts, hist >>
    /\ UNCHANGED << dto, post, attempt, maxAtt, writes, calls, failedStep, remote >>
    /\ UNCHANGED pollVars

\* the refreshed account returned without being saved
SaveAccountSkipped(p) ==
    /\ pc[p] = "save_account"
    /\ pc' = [pc EXCEPT ![p] = "create"]
    /\ UNCHANGED << oauth, accounts, maxPollingAttempts, now, requests, tokensIssued, connects, posts,
                    hist >>
    /\ UNCHANGED << dto, acct, post, attempt, maxAtt, writes, result, calls, failedStep,
                    returned, remote >>
    /\ UNCHANGED pollVars

\* a save that stores the credential without the expiry
SaveAccountTokenOnly(p) ==
    /\ pc[p] = "save_account"
    /\ accounts' = [accounts EXCEPT ![acct[p].id].accessToken = acct[p].accessToken]
    /\ pc' = [pc EXCEPT ![p] = "create"]
    /\ UNCHANGED << oauth, maxPollingAttempts, now, requests, tokensIssued, connects, posts, hist >>
    /\ UNCHANGED << dto, acct, post, attempt, maxAtt, writes, result, calls, failedStep,
                    returned, remote >>
    /\ UNCHANGED pollVars

\* `return this.accountRepo.save(account)` of refreshTokenIfNeeded commits.
SaveAccount(p) ==
    /\ pc[p] = "save_account"
    /\ accounts' = [accounts EXCEPT ![acct[p].id] = acct[p]]
    /\ pc' = [pc EXCEPT ![p] = "create"]
    /\ UNCHANGED << oauth, maxPollingAttempts, now, requests, tokensIssued, connects, posts, hist >>
    /\ UNCHANGED << dto, acct, post, attempt, maxAtt, writes, result, calls, failedStep,
                    returned, remote >>
    /\ UNCHANGED pollVars

\* postRepository.create({... status: PENDING ...}) and the first save is issued.
CreatePendingPost(p) ==
    /\ pc[p] = "create"
    /\ post' = [post EXCEPT ![p] = [NoPost EXCEPT !.mediaType = DefaultMediaType(dto[p].mediaType),
                                                  !.mediaUrl = dto[p].mediaUrl,
                                                  !.caption = OrNull(dto[p].caption),
                                                  !.status = PENDING,
                                                  !.accountId = acct[p].id]]
    /\ IssueSave(p, post'[p])
    /\ pc' = [pc EXCEPT ![p] = "save_pending"]
    /\ UNCHANGED << dto, acct, attempt, maxAtt, result, calls, failedStep, returned, remote >>
    /\ UNCHANGED pollVars
    /\ UNCHANGED dbVars

\* The catch block of createPost: status failed, the message stored, the save issued.
Catch(p, message, step) ==
    /\ post' = [post EXCEPT ![p] = MarkFailed(@, message)]
    /\ IssueSave(p, post'[p])
    /\ pc' = [pc EXCEPT ![p] = "save_failed"]
    /\ failedStep' = [failedStep EXCEPT ![p] = step]

\* a caption test that lets the empty string pass
IsDefined(caption) == caption # Missing

\* `if (caption)`: undefined and the empty string are falsy
IsTruthy(caption) == caption # Missing /\ caption # EmptyString

\* the marker `params.set('media_type', 'REELS')`
ReelsMarker == << "REELS" >>

\* The query parameters InstagramApiService.createMediaContainer builds (mediaType
\* defaults to IMAGE).
CreateContainerParams(accessToken, mediaUrl, mediaType, caption) ==
    [access_token |-> accessToken,
     video_url |-> IF DefaultMediaType(mediaType) = REELS THEN mediaUrl ELSE NotSet,
     media_type |-> IF DefaultMediaType(mediaType) = REELS THEN ReelsMarker ELSE NotSet,
     image_url |-> IF DefaultMediaType(mediaType) = REELS THEN NotSet ELSE mediaUrl,
     caption |-> IF IsTruthy(caption) THEN caption ELSE NotSet]

\* What the remote calls of a flow carry: the container-create and the publish call the
\* owner id (in the path) and the credential, a status call the credential only (its
\* path is the container id).
CreateCall(igUserId, accessToken) == << "createMediaContainer", accessToken, igUserId >>

StatusCall(accessToken) == << "getContainerStatus", accessToken >>

PublishCall(igUserId, accessToken) == << "publishContainer", accessToken, igUserId >>

\* instagramApiService.createMediaContainer is called once the pending save is done.
CreateMediaContainer(p) ==
    /\ pc[p] = "save_pending"
    /\ SaveAwaited(p)
    /\ pc' = [pc EXCEPT ![p] = "createMediaContainer"]
    /\ calls' = [calls EXCEPT ![p].create = @ + 1, ![p].credential = acct[p].accessToken,
                              ![p].params = CreateContainerParams(acct[p].accessToken,
                                                                  dto[p].mediaUrl,
                                                                  post[p].mediaType,
                                                                  dto[p].caption),
                              ![p].sent = @ \cup {CreateCall(acct[p].igUserId,
                                                             acct[p].accessToken)}]
    /\ UNCHANGED << dto, acct, post, attempt, maxAtt, writes, result, failedStep, returned,
                    remote >>
    /\ UNCHANGED pollVars
    /\ UNCHANGED dbVars

\* The container-create response arrives: the client throws, or returns the body (the
\* container id the remote platform created).
CreateMediaContainerReturn(p, outcome) ==
    /\ pc[p] = "createMediaContainer"
    /\ IF CreateContainerThrows(outcome)
       THEN /\ Catch(p, CreationFailedMsg, "createMediaContainer")
            /\ returned' = [returned EXCEPT ![p].wire = outcome]
            /\ UNCHANGED remote
       ELSE LET created == << "container", Cardinality(remote.containers) + 1 >>
                id == ResponseId(outcome, created)
            IN  /\ remote' = [remote EXCEPT !.containers = @ \cup (IF id = Null THEN {} ELSE {id})]
                /\ returned' = [returned EXCEPT ![p].container = id, ![p].wire = outcome]
                /\ post' = [post EXCEPT ![p] = MarkContainerCreated(@, id)]
                /\ IssueSave(p, post'[p])
                /\ pc' = [pc EXCEPT ![p] = "save_container_created"]
                /\ UNCHANGED failedStep
    /\ UNCHANGED << dto, acct, attempt, maxAtt, result, calls >>
    /\ UNCHANGED pollVars
    /\ UNCHANGED dbVars

\* waitForContainerReady begins: status processing, the save issued.
WaitForContainerReady(p) ==
    /\ pc[p] = "save_container_created"
    /\ SaveAwaited(p)
    /\ post' = [post EXCEPT ![p] = MarkProcessing(@)]
    /\ IssueSave(p, post'[p])
    /\ pc' = [pc EXCEPT ![p] = "save_processing"]
    /\ UNCHANGED << dto, acct, attempt, maxAtt, result, calls, failedStep, returned, remote >>
    /\ UNCHANGED pollVars
    /\ UNCHANGED dbVars

\* The head of the polling loop with loop variable att: the next status call is sent
\* while att < maxAttempts, else the did-not-finish error is thrown.  The accessToken
\* argument of waitForContainerReady is refreshedAccount.accessToken, and nothing assigns
\* to that object after refreshTokenIfNeeded returned.
LoopTest(p, att, max) ==
    /\ attempt' = [attempt EXCEPT ![p] = att]
    /\ IF LoopContinues(att, max)
       THEN /\ pc' = [pc EXCEPT ![p] = "getContainerStatus"]
            /\ calls' = [calls EXCEPT ![p].status = @ + 1,
                                      ![p].sent = @ \cup {StatusCall(acct[p].accessToken)}]
            /\ UNCHANGED << post, writes, failedStep >>
       ELSE /\ Catch(p, DidNotFinishMsg(post[p].containerId, max), "budget")
            /\ UNCHANGED calls

\* After the processing save: maxAttempts is computed and the loop is entered.
StartPolling(p) ==
    /\ pc[p] = "save_processing"
    /\ SaveAwaited(p)
    /\ maxAtt' = [maxAtt EXCEPT ![p] = MaxAttempts(post[p].mediaType)]
    /\ LoopTest(p, 0, MaxAttempts(post[p].mediaType))
    /\ UNCHANGED << dto, acct, result, returned, remote >>
    /\ UNCHANGED pollVars
    /\ UNCHANGED dbVars

\* A status response arrives: a status code, or the client throws ("HTTP_ERROR").
GetContainerStatusReturn(p, code) ==
    /\ pc[p] = "getContainerStatus"
    /\ lastCode' = [lastCode EXCEPT ![p] = code]
    /\ allInProgress' = [allInProgress EXCEPT ![p] = @ /\ code = "IN_PROGRESS"]
    /\ IF StatusCheckThrows(code)
       THEN /\ Catch(p, StatusCheckFailedMsg, "getContainerStatus")
            /\ UNCHANGED calls
       ELSE IF IsFinished(code)
       THEN /\ post' = [post EXCEPT ![p] = MarkContainerFinished(@)]
            /\ IssueSave(p, post'[p])
            /\ pc' = [pc EXCEPT ![p] = "save_container_finished"]
            /\ UNCHANGED << calls, failedStep >>
       ELSE IF IsTerminal(code)
       THEN /\ Catch(p, TerminalStatusMsg(post[p].containerId, code), "terminal")
            /\ UNCHANGED calls
       ELSE /\ pc' = [pc EXCEPT ![p] = "sleep"]
            /\ calls' = [calls EXCEPT ![p].sleep = @ + 1]
            /\ UNCHANGED << post, writes, failedStep >>
    /\ UNCHANGED << dto, acct, attempt, maxAtt, result, returned, remote >>
    /\ UNCHANGED dbVars

\* The sleep of the polling interval ends: attempt++ and the loop test.
SleepDone(p) ==
    /\ pc[p] = "sleep"
    /\ LoopTest(p, attempt[p] + 1, maxAtt[p])
    /\ UNCHANGED << dto, acct, maxAtt, result, returned, remote >>
    /\ UNCHANGED pollVars
    /\ UNCHANGED dbVars

\* a publish call that carries what the account row holds when the call is made
PublishContainerRereads(p) ==
    /\ pc[p] = "save_container_finished"
    /\ SaveAwaited(p)
    /\ pc' = [pc EXCEPT ![p] = "publishContainer"]
    /\ calls' = [calls EXCEPT ![p].publish = @ + 1,
                              ![p].sent = @ \cup {PublishCall(accounts[acct[p].id].igUserId,
                                                              accounts[acct[p].id].accessToken)}]
    /\ UNCHANGED << dto, acct, post, attempt, maxAtt, writes, result, failedStep, returned,
                    remote >>
    /\ UNCHANGED pollVars
    /\ UNCHANGED dbVars

\* a publish call made only while the account is still active
PublishContainerIfActive(p) ==
    /\ pc[p] = "save_container_finished"
    /\ SaveAwaited(p)
    /\ IsActiveAccount(acct[p].id)
    /\ pc' = [pc EXCEPT ![p] = "publishContainer"]
    /\ calls' = [calls EXCEPT ![p].publish = @ + 1,
                              ![p].sent = @ \cup {PublishCall(acct[p].igUserId,
                                                              acct[p].accessToken)}]
    /\ UNCHANGED << dto, acct, post, attempt, maxAtt, writes, result, failedStep, returned,
                    remote >>
    /\ UNCHANGED pollVars
    /\ UNCHANGED dbVars

\* instagramApiService.publishContainer is called once waitForContainerReady returned.
PublishContainer(p) ==
    /\ pc[p] = "save_container_finished"
    /\ SaveAwaited(p)
    /\ pc' = [pc EXCEPT ![p] = "publishContainer"]
    /\ calls' = [calls EXCEPT ![p].publish = @ + 1,
                              ![p].sent = @ \cup {PublishCall(acct[p].igUserId,
                                                              acct[p].accessToken)}]
    /\ UNCHANGED << dto, acct, post, attempt, maxAtt, writes, result, failedStep, returned,
                    remote >>
    /\ UNCHANGED pollVars
    /\ UNCHANGED dbVars

\* The publish response arrives: the client throws, or returns the body (the media id
\* the remote platform published).
PublishContainerReturn(p, outcome) ==
    /\ pc[p] = "publishContainer"
    /\ IF PublishThrows(outcome)
       THEN /\ Catch(p, PublishFailedMsg, "publishContainer")
            /\ returned' = [returned EXCEPT ![p].wire = outcome]
            /\ UNCHANGED remote
       ELSE LET published == << "media", Cardinality(remote.media) + 1 >>
                id == ResponseId(outcome, published)
            IN  /\ remote' = [remote EXCEPT !.media = @ \cup (IF id = Null THEN {} ELSE {id})]
                /\ returned' = [returned EXCEPT ![p].media = id, ![p].wire = outcome]
                /\ post' = [post EXCEPT ![p] = MarkPublished(@, id)]
                /\ IssueSave(p, post'[p])
                /\ pc' = [pc EXCEPT ![p] = "save_published"]
                /\ UNCHANGED failedStep
    /\ UNCHANGED << dto, acct, attempt, maxAtt, result, calls >>
    /\ UNCHANGED pollVars
    /\ UNCHANGED dbVars

\* a return that saves the account object of the flow once more
ReturnResponseSavesAccount(p) ==
    /\ pc[p] = "save_published"
    /\ SaveAwaited(p)
    /\ result' = [result EXCEPT ![p] = ToResponse(post[p])]
    /\ pc' = [pc EXCEPT ![p] = "done"]
    /\ accounts' = [accounts EXCEPT ![acct[p].id] = acct[p]]
    /\ UNCHANGED << dto, acct, post, attempt, maxAtt, writes, calls, failedStep, returned,
                    remote >>
    /\ UNCHANGED pollVars
    /\ UNCHANGED << oauth, maxPollingAttempts, now, requests, tokensIssued, connects, posts, hist >>

\* `return this.toResponse(post)` once the published save is done.
ReturnResponse(p) ==
    /\ pc[p] = "save_published"
    /\ SaveAwaited(p)
    /\ result' = [result EXCEPT ![p] = ToResponse(post[p])]
    /\ pc' = [pc EXCEPT ![p] = "done"]
    /\ UNCHANGED << dto, acct, post, attempt, maxAtt, writes, calls, failedStep, returned,
                    remote >>
    /\ UNCHANGED pollVars
    /\ UNCHANGED dbVars

\* The end of the catch block: once the failed save is done, HttpException 502 with the
\* stored message and the post id is thrown.
ThrowBadGateway(p) ==
    /\ pc[p] = "save_failed"
    /\ SaveAwaited(p)
    /\ result' = [result EXCEPT ![p] = BadGateway(post[p])]
    /\ pc' = [pc EXCEPT ![p] = "done"]
    /\ UNCHANGED << dto, acct, post, attempt, maxAtt, writes, calls, failedStep, returned,
                    remote >>
    /\ UNCHANGED pollVars
    /\ UNCHANGED dbVars

\* the error of a rejected persistence write (QueryFailedError)
SaveFailedMsg == Msg("QueryFailedError", Null, "", 0, "")

\* `await this.postRepository.save(post)` rejects: the write in flight is not committed
\* and the save throws.  The save of the pending post is outside the try block and the
\* save of the failed post is inside the catch block: their error leaves createPost as
\* it is.  The other saves are inside the try block: the catch block marks the post
\* failed with the error's message and issues the failed save.
SaveRejects(p) ==
    /\ writes[p] # << >>
    /\ pc[p] \in {"save_pending", "save_container_created", "save_processing",
                  "save_container_finished", "save_published", "save_failed"}
    /\ IF pc[p] \in {"save_pending", "save_failed"}
       THEN /\ writes' = [writes EXCEPT ![p] = Tail(@)]
            /\ result' = [result EXCEPT ![p] = Thrown("Error", 0, 0, SaveFailedMsg)]
            /\ pc' = [pc EXCEPT ![p] = "done"]
            /\ UNCHANGED << post, failedStep >>
       ELSE /\ post' = [post EXCEPT ![p] = MarkFailed(@, SaveFailedMsg)]
            /\ writes' = [writes EXCEPT ![p] = Append(Tail(@), post'[p])]
            /\ pc' = [pc EXCEPT ![p] = "save_failed"]
            /\ failedStep' = [failedStep EXCEPT ![p] = "save"]
            /\ UNCHANGED result
    /\ UNCHANGED << dto, acct, attempt, maxAtt, calls, returned, remote >>
    /\ UNCHANGED pollVars
    /\ UNCHANGED dbVars

\* getPost(id) and listPosts(): reads of the posts table, nothing is written.
GetPost(id) ==
    /\ id \in 1..MaxRequests
    /\ UNCHANGED vars

\* `Post not found`
PostNotFoundMsg == Msg("Post not found", Null, "", 0, "")

\* what getPost(id) gives its caller: `findOneBy({ id })`, the not-found exception for no
\* row, else toResponse of the row
GetPostResult(id) ==
    IF id \in DOMAIN posts
      THEN ToResponse(posts[id])
      ELSE Thrown("HttpException", NOT_FOUND, 0, PostNotFoundMsg)

\* @CreateDateColumn() createdAt: set once by the insert; the rows are inserted in the
\* order of their ids
CreatedAt(entity) == entity.id

\* `find()` without an order: the rows as the table holds them
FindUnordered == posts

\* `find({ order: { createdAt: 'DESC' } })`
FindOrderCreatedAtDesc == SortSeq(posts, LAMBDA a, b : CreatedAt(a) > CreatedAt(b))

\* what listPosts() gives its caller: `posts.map((p) => this.toResponse(p))`
ListPostsResult == [k \in DOMAIN FindOrderCreatedAtDesc |-> ToResponse(FindOrderCreatedAtDesc[k])]

ListPosts ==
    /\ UNCHANGED vars

\* ------------------------------------------------------------------ Next

StatusOutcomes == ContainerStatusCode \cup {"HTTP_ERROR"}

\* The steps of the createPost flows P after getAccount, with validities E (in days) in
\* the refresh responses, outcomes S of the status polls and answers W to the
\* container-create and publish calls; FlowsOf adds the requests, with media kinds M for
\* the accounts U.
StepsOf(P, E, S, W) ==
    \/ \E p \in P : RefreshTokenIfNeeded(p)
    \/ \E p \in P, ok \in BOOLEAN, e \in E : RefreshResponse(p, ok, e)
    \/ \E p \in P : SaveAccount(p)
    \/ \E p \in P : CreatePendingPost(p)
    \/ \E p \in P : DbCommit(p)
    \/ \E p \in P : CreateMediaContainer(p)
    \/ \E p \in P, w \in W : CreateMediaContainerReturn(p, w)
    \/ \E p \in P : WaitForContainerReady(p)
    \/ \E p \in P : StartPolling(p)
    \/ \E p \in P, c \in S : GetContainerStatusReturn(p, c)
    \/ \E p \in P : SleepDone(p)
    \/ \E p \in P : PublishContainer(p)
    \/ \E p \in P, w \in W : PublishContainerReturn(p, w)
    \/ \E p \in P : ReturnResponse(p)
    \/ \E p \in P : ThrowBadGateway(p)

FlowsOf(P, M, E, U, S, W) ==
    \/ \E p \in P, id \in U, m \in M : GetAccount(p, id, m)
    \/ StepsOf(P, E, S, W)

\* The steps of the core: OAuth callbacks of the remote users U with profile variants F,
\* deactivations, reads of the posts and the createPost flows.
NextEnv(P, M, E, U, F, S, W) ==
    \/ \E u \in U, f \in F, e \in E, ok \in BOOLEAN :
          HandleCallback(InstagramUserProfile(u, f), e, ok)
    \/ \E id \in U : DeactivateAccount(id)
    \/ \E id \in 1..MaxRequests : GetPost(id)
    \/ ListPosts
    \/ FlowsOf(P, M, E, U, S, W)

\* One remote user, one profile variant.
NextOf(P, M, E) == NextEnv(P, M, E, {1}, {1}, StatusOutcomes, WireContract)

\* One flow serving the requests one after the other, every media kind.
Next == NextOf({1}, {IMAGE, REELS, Undefined}, ExpiresIn)

Spec == Init /\ [][Next]_vars

\* One flow, every media kind, the base attempt count configured as any number from
\* -MaxDeficit up: IG_MAX_POLLING_ATTEMPTS is validated as a number only.
InitAnyBase == InitWith((0 - MaxDeficit)..MaxBaseAttempts)

SpecBudget == InitAnyBase /\ [][Next]_vars

\* NumPipes flows in flight at once: image requests, base attempt count 1, every
\* credential issued near expiry.
InitConc == Init /\ maxPollingAttempts = 1

NextConc == NextOf(Pipes, {IMAGE}, {3})

SpecConc == InitConc /\ [][NextConc]_vars

\* A step of flow p after getAccount: the flow resumes at its await, a write commits
\* or a remote call returns.
FlowStep(p) ==
    \/ RefreshTokenIfNeeded(p)
    \/ \E ok \in BOOLEAN, e \in ExpiresIn : RefreshResponse(p, ok, e)
    \/ SaveAccount(p)
    \/ CreatePendingPost(p)
    \/ DbCommit(p)
    \/ CreateMediaContainer(p)
    \/ \E w \in WireContract : CreateMediaContainerReturn(p, w)
    \/ WaitForContainerReady(p)
    \/ StartPolling(p)
    \/ \E c \in StatusOutcomes : GetContainerStatusReturn(p, c)
    \/ SleepDone(p)
    \/ PublishContainer(p)
    \/ \E w \in WireContract : PublishContainerReturn(p, w)
    \/ ReturnResponse(p)
    \/ ThrowBadGateway(p)

\* The process is not interrupted, and every remote call, sleep and write returns: a
\* flow that can take a step eventually takes one.
SpecLive == Spec /\ \A p \in {1} : WF_vars(FlowStep(p))

\* The account operations with every remote user and profile variant, next to one
\* flow of image requests with base attempt count 1 whose polls answer IN_PROGRESS or
\* FINISHED; credentials are issued near expiry (3 days) or far from it (60 days).
NextAcct ==
    NextEnv({1}, {IMAGE}, {3, 60}, RemoteUsers, ProfileVariants, {"IN_PROGRESS", "FINISHED"},
            WireContract)

SpecAcct == InitConc /\ [][NextAcct]_vars

\* One account, connected once with a credential 3 days from expiry and then neither
\* reconnected nor deactivated, and NumPipes createPost flows for it in flight at once;
\* a refresh returns a validity of 3 or of 60 days.
\* One account and one createPost flow at a time, the remote platform answering the
\* container-create, status and publish calls also with a success status whose body is an
\* error envelope (no id, no status_code).
NextWire ==
    NextEnv({1}, {IMAGE}, {3}, {1}, {1}, {"IN_PROGRESS", "FINISHED", Undefined, "HTTP_ERROR"},
            WireOutcomes)

SpecWire == InitConc /\ [][NextWire]_vars

\* The steps of the OAuth callbacks C for the remote users U with the profile variants F
\* and validities E (in days) of the long-lived credential.
CallbacksOf(C, U, F, E) ==
    \/ \E c \in C, code \in {"code", Undefined} : ExchangeCodeForToken(c, code)
    \/ \E c \in C, body \in OAuthBodies : ShortLivedResponse(c, body)
    \/ \E c \in C, body \in OAuthBodies, e \in E : LongLivedResponse(c, body, e)
    \/ \E c \in C, body \in OAuthBodies, u \in U, f \in F :
          GetProfileResponse(c, body, InstagramUserProfile(u, f))
    \/ \E c \in C : UpsertAccountFindOne(c)
    \/ \E c \in C : UpsertAccountSave(c)

\* OAuth callbacks handled one at a time, step by step, and deactivations.
NextOAuth ==
    \/ CallbacksOf({1}, RemoteUsers, ProfileVariants, {3, 60})
    \/ \E id \in RemoteUsers : DeactivateAccount(id)

SpecOAuth == InitConc /\ [][NextOAuth]_vars

\* OAuth callbacks in flight at once, interleaved at every await, and deactivations.
NextUpsert ==
    \/ CallbacksOf(Callbacks, RemoteUsers, ProfileVariants, {60})
    \/ \E id \in RemoteUsers : DeactivateAccount(id)

SpecUpsert == InitConc /\ [][NextUpsert]_vars

ConnectOnce ==
    /\ accounts = << >>
    /\ HandleCallback(InstagramUserProfile(1, 1), 3, TRUE)

NextRace ==
    \/ ConnectOnce
    \/ FlowsOf(Pipes, {IMAGE}, {3, 60}, {1}, {"IN_PROGRESS", "FINISHED"}, WireContract)

SpecRace == InitConc /\ [][NextRace]_vars

\* the account connected once with a credential far from expiry
ConnectOnceLongLived ==
    /\ accounts = << >>
    /\ HandleCallback(InstagramUserProfile(1, 1), 60, TRUE)

\* The captions a request may carry: none, the empty string, a text.
Captions == {Missing, EmptyString, << "caption", 1 >>}

\* One account and one flow whose requests carry every media kind and every caption;
\* the remote platform rejects every container-create call.
NextBuild ==
    \/ ConnectOnceLongLived
    \/ \E m \in {IMAGE, REELS, Undefined}, c \in Captions :
          CreatePost(1, [accountId |-> 1, mediaType |-> m,
                         mediaUrl |-> MediaUrl(requests + 1), caption |-> c], MaxRequests)
    \/ RefreshTokenIfNeeded(1)
    \/ CreatePendingPost(1)
    \/ DbCommit(1)
    \/ CreateMediaContainer(1)
    \/ CreateMediaContainerReturn(1, "HTTP_ERROR")
    \/ ThrowBadGateway(1)

SpecBuild == InitConc /\ [][NextBuild]_vars

\* One account and one flow of image requests, one after the other, where the database
\* may reject any persistence write of the flow.
NextFail ==
    \/ ConnectOnce
    \/ GetAccountWithin(1, 1, IMAGE, MaxFailRequests)
    \/ StepsOf({1}, {60}, {"IN_PROGRESS", "FINISHED", "HTTP_ERROR"}, WireContract)
    \/ SaveRejects(1)

SpecFail == InitConc /\ [][NextFail]_vars

\* ---------------------------------------------------------------- claims

\* the lifecycle order of the statuses
StatusChain == << PENDING, CONTAINER_CREATED, PROCESSING, CONTAINER_FINISHED, PUBLISHED >>

IsPrefix(s, t) == Len(s) <= Len(t) /\ \A i \in 1..Len(s) : s[i] = t[i]

\* h is a non-empty prefix of the chain, or a non-empty prefix of its four non-terminal
\* statuses followed by failed
LifecycleOk(h) ==
    /\ Len(h) >= 1
    /\ \/ IsPrefix(h, StatusChain)
       \/ /\ Len(h) >= 2
          /\ h[Len(h)] = FAILED
          /\ IsPrefix(SubSeq(h, 1, Len(h) - 1), SubSeq(StatusChain, 1, 4))

\* C1: for every post, the statuses durably written form a prefix of pending,
\* container_created, processing, container_finished, published, optionally ended by
\* failed after a non-terminal status; a published post had container_finished before.
C1_StatusSequence ==
    /\ DOMAIN hist = DOMAIN posts
    /\ \A i \in DOMAIN posts :
        /\ LifecycleOk(hist[i])
        /\ posts[i].status = hist[i][Len(hist[i])]
        /\ posts[i].status = PUBLISHED =>
              \E j \in 1..(Len(hist[i]) - 1) : hist[i][j] = CONTAINER_FINISHED

\* C1 witness: a post went through the whole chain, another one failed while processing
C1_Witness ==
    \E i, j \in DOMAIN posts :
        /\ hist[i] = StatusChain
        /\ hist[j] = << PENDING, CONTAINER_CREATED, PROCESSING, FAILED >>

\* a remote publishing call of flow p is in flight
RemoteCallInFlight(p) ==
    pc[p] \in {"createMediaContainer", "getContainerStatus", "publishContainer"}

\* the statuses that must be durable when the remote call at this position is issued
DurableBefore(position) ==
    IF position = "createMediaContainer" THEN SubSeq(StatusChain, 1, 1)
    ELSE IF position = "getContainerStatus" THEN SubSeq(StatusChain, 1, 3)
    ELSE SubSeq(StatusChain, 1, 4)

\* C2: while a remote call of createPost is in flight no write of the flow is pending,
\* and the durable record is the entity as the last completed step left it (pending
\* before container create; container_created with the container id, then processing,
\* before a status poll; container_finished before publish).
C2_WritesBeforeRemoteCalls ==
    \A p \in Pipes :
        RemoteCallInFlight(p) =>
            /\ writes[p] = << >>
            /\ post[p].id \in DOMAIN posts
            /\ posts[post[p].id] = post[p]
            /\ hist[post[p].id] = DurableBefore(pc[p])
            /\ pc[p] # "createMediaContainer" => posts[post[p].id].containerId # Null

\* C2 witness: the publish call is in flight after a second status poll
C2_Witness ==
    \E p \in Pipes : pc[p] = "publishContainer" /\ calls[p].status = 2

Progress(r) == << r.status, r.containerId, r.instagramMediaId, r.errorMessage >>

\* C4: once the durable status of a post is published or failed, no step of any flow
\* changes its status, containerId, instagramMediaId or errorMessage.
C4_TerminalImmutable ==
    [][\A i \in DOMAIN posts :
          posts[i].status \in {PUBLISHED, FAILED} =>
              i \in DOMAIN posts' /\ Progress(posts'[i]) = Progress(posts[i])]_vars

\* C4 witness: a published post, another post in flight, the account deactivated
C4_Witness ==
    /\ \E i, j \in DOMAIN posts :
          /\ posts[i].status = PUBLISHED
          /\ posts[j].status = PROCESSING
    /\ \E a \in DOMAIN accounts : ~accounts[a].isActive

\* createPost of flow p ended by signaling an error to its caller
Signaled(p) ==
    pc[p] = "done" /\ result[p].kind \in {"NotFoundException", "Error", "HttpException"}

\* the Post row of the current call of flow p is durable
HasRow(p) == post[p].id \in DOMAIN posts

\* the durable Post row of the current call of flow p
Row(p) == posts[post[p].id]

C6_UniformGatewayError ==
    \A p \in Pipes :
        /\ (pc[p] = "done" /\ failedStep[p] # "none") => result[p].kind = "HttpException"
        /\ result[p].kind = "HttpException" =>
              /\ failedStep[p] \in {"createMediaContainer", "getContainerStatus", "terminal",
                                    "budget", "publishContainer"}
              /\ result[p].statusCode = BAD_GATEWAY
              /\ result[p].postId \in DOMAIN posts
              /\ result[p].postId = post[p].id
              /\ posts[result[p].postId].status = FAILED
              /\ posts[result[p].postId].errorMessage = result[p].detail
              /\ result[p].detail # NoMsg

\* C6 witness: the gateway error after a terminal poll status
C6_Witness ==
    \E p \in Pipes : result[p].kind = "HttpException" /\ failedStep[p] = "terminal"

\* the effective attempt budget of a request with media kind m (spec 4.3)
Budget(m) == IF m = REELS THEN 3 * maxPollingAttempts ELSE maxPollingAttempts

\* C7: when every status poll returns IN_PROGRESS the post fails after exactly B status
\* calls (B the effective budget), publish is never called, and the stored message
\* names the container id and B.
C7_BudgetExhausted ==
    \A p \in Pipes :
        (returned[p].container # Null /\ allInProgress[p]) =>
            LET B == Budget(dto[p].mediaType)
            IN  /\ calls[p].status <= B
                /\ calls[p].publish = 0
                /\ pc[p] \in {"save_failed", "done"} =>
                      /\ calls[p].status = B
                      /\ failedStep[p] = "budget"
                      /\ post[p].errorMessage = DidNotFinishMsg(returned[p].container, B)
                /\ (pc[p] = "save_failed" /\ writes[p] = << >>) \/ pc[p] = "done" =>
                      /\ Row(p).status = FAILED
                      /\ Row(p).containerId = returned[p].container
                      /\ Row(p).errorMessage = DidNotFinishMsg(returned[p].container, B)

\* C7 witness: base attempts 1, reels: failed after exactly 3 polls, all IN_PROGRESS
C7_Witness ==
    \E p \in Pipes :
        /\ pc[p] = "done" /\ returned[p].container # Null /\ allInProgress[p]
        /\ calls[p].status = 3 /\ Row(p).errorMessage.n = 3

\* the polling loop of flow p has been entered
LoopEntered(p) == calls[p].status > 0 \/ failedStep[p] = "budget"

\* C8: the effective budget is 3 times the base attempt count for reels and the base
\* attempt count for image, also when the request omitted the media kind; the number of
\* status calls of a post never exceeds it.
C8_EffectiveBudget ==
    \A p \in Pipes :
        /\ calls[p].status <= Budget(dto[p].mediaType)
        /\ LoopEntered(p) =>
              /\ maxAtt[p] = Budget(dto[p].mediaType)
              /\ dto[p].mediaType = REELS => maxAtt[p] = 3 * maxPollingAttempts
              /\ dto[p].mediaType \in {IMAGE, Undefined} =>
                    maxAtt[p] = maxPollingAttempts /\ post[p].mediaType = IMAGE

\* C8 witness: a reels request used its whole budget of 3 times the base count
C8_Witness ==
    \E p \in Pipes :
        /\ dto[p].mediaType = REELS /\ maxPollingAttempts >= 1
        /\ calls[p].status = 3 * maxPollingAttempts

\* C9: a poll that returns ERROR or EXPIRED fails the post at once: no further status
\* call, no sleep and no publish call, and the stored message holds the status code.
C9_TerminalStatus ==
    /\ [](\A p \in Pipes :
            lastCode[p] \in {"ERROR", "EXPIRED"} =>
                /\ pc[p] \in {"save_failed", "done"}
                /\ failedStep[p] = "terminal"
                /\ calls[p].publish = 0
                /\ calls[p].sleep = calls[p].status - 1
                /\ post[p].status = FAILED
                /\ post[p].errorMessage = TerminalStatusMsg(returned[p].container, lastCode[p])
                /\ writes[p] = << >> => Row(p) = post[p])
    /\ [][\A p \in Pipes :
            (lastCode[p] \in {"ERROR", "EXPIRED"} /\ lastCode'[p] = lastCode[p]) =>
                calls'[p] = calls[p]]_vars

\* C9 witness: ERROR on the second poll of a budget of 3, the failure signaled
C9_Witness ==
    \E p \in Pipes :
        /\ lastCode[p] = "ERROR" /\ calls[p].status = 2 /\ maxAtt[p] = 3
        /\ pc[p] = "done" /\ Row(p).status = FAILED

\* C10: FINISHED on the first poll and a successful publish give exactly one status call
\* and one publish call and a published Post holding the media id publish returned and
\* no errorMessage; polling stops at the first FINISHED, and publish is called only
\* after a FINISHED poll.
C10_FinishedThenPublished ==
    \A p \in Pipes :
        /\ calls[p].publish <= 1
        /\ calls[p].publish > 0 => lastCode[p] = "FINISHED"
        /\ lastCode[p] = "FINISHED" =>
              /\ pc[p] \notin {"getContainerStatus", "sleep"}
              /\ calls[p].sleep = calls[p].status - 1
        /\ (pc[p] = "done" /\ lastCode[p] = "FINISHED" /\ calls[p].status = 1
                /\ returned[p].media # Null) =>
              /\ calls[p].publish = 1
              /\ result[p].kind = "returned"
              /\ result[p].status = PUBLISHED
              /\ result[p].instagramMediaId = returned[p].media
              /\ Row(p).status = PUBLISHED
              /\ Row(p).instagramMediaId = returned[p].media
              /\ Row(p).errorMessage = NoMsg

\* C10 witness: published after a single poll
C10_Witness ==
    \E p \in Pipes :
        /\ pc[p] = "done" /\ calls[p].status = 1 /\ calls[p].publish = 1
        /\ result[p].kind = "returned" /\ Row(p).status = PUBLISHED

\* a remote call of flow p has thrown
RemoteCallThrew(p) ==
    failedStep[p] \in {"createMediaContainer", "getContainerStatus", "publishContainer"}

\* C11: no remote call is retried: per post at most one container-create call and at
\* most one publish call; once a remote call (create, a status poll, publish) has thrown
\* the post is failed and the flow makes no further remote call of any kind; another
\* status call follows only a poll that returned a non-terminal status code.
C11_NoRetries ==
    /\ [](\A p \in Pipes :
            /\ calls[p].create <= 1
            /\ calls[p].publish <= 1
            /\ RemoteCallThrew(p) =>
                  /\ pc[p] \in {"save_failed", "done"}
                  /\ post[p].status = FAILED
                  /\ writes[p] = << >> => Row(p).status = FAILED
                  /\ failedStep[p] = "createMediaContainer" =>
                        calls[p].status = 0 /\ calls[p].publish = 0
                  /\ failedStep[p] = "getContainerStatus" =>
                        lastCode[p] = "HTTP_ERROR" /\ calls[p].publish = 0)
    /\ [][\A p \in Pipes :
            /\ (RemoteCallThrew(p) /\ failedStep'[p] = failedStep[p]) => calls'[p] = calls[p]
            /\ (calls[p].status >= 1 /\ calls'[p].status = calls[p].status + 1) =>
                  lastCode[p] \in {"IN_PROGRESS", "PUBLISHED"}]_vars

\* C11 witness: the second status poll threw and the failure was signaled after two
\* status calls
C11_Witness ==
    \E p \in Pipes :
        /\ pc[p] = "done" /\ failedStep[p] = "getContainerStatus"
        /\ calls[p].status = 2 /\ calls[p].create = 1 /\ Row(p).status = FAILED

\* flow p has passed refreshTokenIfNeeded
RefreshDone(p) ==
    pc[p] \notin {"idle", "refreshTokenIfNeeded", "refresh_access_token", "save_account"}

\* C12: in a createPost for an account whose credential expires in less than 7 days the
\* refresh call is made and answered and the refreshed credential and expiry are saved
\* before the container-create call is made, and the container-create call carries the
\* credential the refresh returned, never the one the account was loaded with.
C12_RefreshBeforeCreate ==
    /\ [](\A p \in Pipes :
            /\ calls[p].create >= 1 => RefreshDone(p)
            /\ (calls[p].create >= 1 /\ calls[p].refresh >= 1) =>
                  /\ calls[p].refresh = 1
                  /\ returned[p].credential # Null
                  /\ calls[p].credential = returned[p].credential
                  /\ acct[p].accessToken = returned[p].credential)
    /\ [][\A p \in Pipes :
            /\ (pc[p] = "refreshTokenIfNeeded" /\ pc'[p] # pc[p]
                    /\ acct[p].tokenExpiresAt - now < 7) =>
                  /\ pc'[p] = "refresh_access_token"
                  /\ calls'[p].refresh = 1 /\ calls'[p].create = 0
            /\ (pc[p] = "refresh_access_token" /\ pc'[p] = "save_account") =>
                  /\ returned'[p].credential # acct[p].accessToken
                  /\ acct'[p].accessToken = returned'[p].credential
            /\ (pc[p] = "save_account" /\ pc'[p] # pc[p]) =>
                  /\ pc'[p] = "create"
                  /\ calls'[p].create = 0
                  /\ accounts'[acct[p].id].accessToken = returned[p].credential
                  /\ accounts'[acct[p].id].tokenExpiresAt = acct[p].tokenExpiresAt]_vars

\* C12 witness: the container-create call is in flight with the refreshed credential,
\* which is the stored one
C12_Witness ==
    \E p \in Pipes :
        /\ pc[p] = "createMediaContainer" /\ calls[p].refresh = 1
        /\ calls[p].credential = returned[p].credential
        /\ accounts[acct[p].id].accessToken = calls[p].credential

Finished(p) ==
    /\ pc[p] = "done"
    /\ result[p].kind \in {"returned", "HttpException"}
    /\ writes[p] = << >>
    /\ HasRow(p)
    /\ Row(p).status \in {PUBLISHED, FAILED}

UpsertStep(i) ==
    /\ connects' = connects + 1
    /\ tokensIssued' = tokensIssued + 1
    /\ i \in DOMAIN accounts'
    /\ accounts'[i].accessToken = Token(tokensIssued')

\* C15: deactivation is one-way: an inactive account stays inactive (getAccount fails,
\* listAccounts omits it) under every interleaving with createPost and
\* refreshTokenIfNeeded in flight, until an upsertAccount for its remote user runs; no
\* other operation sets isActive back to true.
C15_DeactivationOneWay ==
    [][\A i \in DOMAIN accounts :
          (~accounts[i].isActive /\ ~UpsertStep(i)) =>
              /\ ~accounts'[i].isActive
              /\ GetAccountThrows(i)'
              /\ accounts'[i] \notin ListAccounts']_vars

\* C16: deactivateAccount(id) on an active account succeeds and sets isActive false; a
\* second deactivateAccount(id) with no upsert in between fails with not-found and
\* changes nothing; on a missing id it fails with not-found; no deactivateAccount
\* deletes or modifies a Post row.
C16_DeactivateTwice ==
    /\ [](\A id \in RemoteUsers : id \notin DOMAIN accounts => GetAccountThrows(id))
    /\ [][\A id \in RemoteUsers :
            /\ DeactivateAccount(id) =>
                  /\ posts' = posts /\ hist' = hist /\ writes' = writes
                  /\ IF id \in DOMAIN accounts /\ accounts[id].isActive
                     THEN accounts' = [accounts EXCEPT ![id].isActive = FALSE]
                     ELSE accounts' = accounts
            /\ (id \in DOMAIN accounts /\ ~accounts[id].isActive /\ ~UpsertStep(id)) =>
                  GetAccountThrows(id)']_vars

\* C17: listAccounts returns exactly the account rows whose stored isActive is true,
\* never one with isActive false, and getAccount(id) fails with not-found whenever no
\* row has that id or the row is inactive (and only then).
C17_OnlyActiveVisible ==
    /\ \A r \in ListAccounts : r.isActive /\ r.id \in DOMAIN accounts /\ accounts[r.id] = r
    /\ \A i \in DOMAIN accounts : accounts[i].isActive => accounts[i] \in ListAccounts
    /\ \A id \in RemoteUsers :
          GetAccountThrows(id) <=> (id \notin DOMAIN accounts \/ ~accounts[id].isActive)
    /\ \A p \in Pipes :
          (pc[p] \notin {"idle", "done"}) => dto[p].accountId \in DOMAIN accounts

\* C17 witness: after connects, a refresh, a deactivation and a createPost one account
\* is listed and the other, inactive one is not
C17_Witness ==
    /\ Len(accounts) = 2
    /\ Cardinality(ListAccounts) = 1
    /\ \E i \in DOMAIN accounts : ~accounts[i].isActive /\ GetAccountThrows(i)
    /\ tokensIssued = 3
    /\ \E i \in DOMAIN posts : posts[i].status = PUBLISHED

\* C18: createPost with an account id that resolves to no active account fails with
\* not-found before anything else happens: no Post row is created, no remote call
\* (refresh, container create, poll, publish) is made, no Account row is modified.
C18_UnknownAccount ==
    /\ [](\A p \in Pipes :
            (pc[p] = "done" /\ result[p].kind = "NotFoundException") =>
                /\ result[p].statusCode = NOT_FOUND
                /\ calls[p] = NoCalls
                /\ post[p] = NoPost
                /\ writes[p] = << >>
                /\ returned[p] = NoReturned)
    /\ [][\A p \in Pipes, id \in RemoteUsers, m \in {IMAGE, REELS, Undefined} :
            (GetAccount(p, id, m) /\ (id \notin DOMAIN accounts \/ ~accounts[id].isActive)) =>
                /\ pc'[p] = "done"
                /\ result'[p].kind = "NotFoundException"
                /\ posts' = posts /\ hist' = hist /\ writes' = writes
                /\ accounts' = accounts
                /\ remote' = remote /\ tokensIssued' = tokensIssued
                /\ calls'[p] = NoCalls]_vars

\* C18 witness: a createPost for a deactivated account ended with not-found while the
\* tables hold one account and one post of an earlier request
C18_Witness ==
    \E p \in Pipes :
        /\ pc[p] = "done" /\ result[p].kind = "NotFoundException"
        /\ dto[p].accountId \in DOMAIN accounts
        /\ ~accounts[dto[p].accountId].isActive
        /\ Len(posts) = 1

\* the ids of the rows of table t with remote user id u
RowsOf(t, u) == {i \in DOMAIN t : t[i].igUserId = u}

\* C19: there is at most one Account row per remote user id and the remote user id of
\* a row never changes; an upsertAccount for a remote user id that has a row under
\* another username leaves exactly one row for it, carrying the username of this call.
C19_OneRowPerRemoteUser ==
    /\ [](\A i, j \in DOMAIN accounts :
            /\ accounts[i].id = i
            /\ accounts[i].igUserId = accounts[j].igUserId => i = j)
    /\ [][/\ \A i \in DOMAIN accounts :
               /\ i \in DOMAIN accounts'
               /\ accounts'[i].igUserId = accounts[i].igUserId
               /\ accounts'[i].id = accounts[i].id
          /\ \A u \in RemoteUsers, f \in ProfileVariants, e \in ExpiresIn :
                HandleCallback(InstagramUserProfile(u, f), e, TRUE) =>
                    /\ Cardinality(RowsOf(accounts', u)) = 1
                    /\ \A i \in RowsOf(accounts', u) :
                          accounts'[i].username = << "username", f >>
                    /\ Len(accounts') =
                          Len(accounts) + (IF RowsOf(accounts, u) = {} THEN 1 ELSE 0)
         ]_vars

\* C19 witness: a flow still holds the account as connected under the first username,
\* a second connect of the same remote user has stored the second username in the
\* one row
C19_Witness ==
    \E p \in Pipes :
        /\ acct[p].id = 1 /\ acct[p].username = << "username", 1 >>
        /\ accounts[1].username = << "username", 2 >>
        /\ accounts[1].igUserId = acct[p].igUserId
        /\ Len(accounts) = 1 /\ connects = 2

\* the Account row upsertAccount is to leave for this profile, credential and expiry
UpsertedRow(id, profile, accessToken, expiresAt) ==
    [id |-> id, igUserId |-> profile.id, username |-> profile.username,
     name |-> IF profile.name = Missing THEN Null ELSE profile.name,
     profilePictureUrl |->
         IF profile.profile_picture_url = Missing THEN Null ELSE profile.profile_picture_url,
     accessToken |-> accessToken, tokenExpiresAt |-> expiresAt, isActive |-> TRUE]

\* C20: upsertAccount for a remote user id that has a row (active or not) keeps the
\* id of the row, overwrites username, name, picture URL, credential and expiry with
\* the supplied values and sets isActive true; for an unknown remote user id it creates
\* a row with isActive true; no other operation creates an Account row.
C20_Upsert ==
    [][/\ Len(accounts') >= Len(accounts)
       /\ Len(accounts') # Len(accounts) =>
             /\ connects' = connects + 1
             /\ Len(accounts') = Len(accounts) + 1
       /\ \A u \in RemoteUsers, f \in ProfileVariants, e \in ExpiresIn :
             HandleCallback(InstagramUserProfile(u, f), e, TRUE) =>
                 LET id == IF RowsOf(accounts, u) = {}
                           THEN Len(accounts) + 1
                           ELSE CHOOSE i \in RowsOf(accounts, u) : TRUE
                 IN  /\ DOMAIN accounts' = DOMAIN accounts \cup {id}
                     /\ accounts'[id] =
                           UpsertedRow(id, InstagramUserProfile(u, f), Token(tokensIssued + 1),
                                       now + e)
                     /\ \A i \in DOMAIN accounts : i # id => accounts'[i] = accounts[i]
      ]_vars

\* C20 witness: account 1 had a post, was deactivated (a createPost for it ended with
\* not-found) and is active again after a second connect of its remote user
C20_Witness ==
    \E p \in Pipes :
        /\ pc[p] = "done" /\ result[p].kind = "NotFoundException" /\ dto[p].accountId = 1
        /\ \E i \in DOMAIN posts : posts[i].accountId = 1
        /\ Len(accounts) = 1 /\ accounts[1].isActive /\ connects = 2

\* the fields of an Account row that a refresh is not to change
AccountFrame(r) ==
    << r.id, r.igUserId, r.username, r.name, r.profilePictureUrl, r.isActive >>

\* this step is the refresh save of flow p
RefreshSaveStep(p) == pc[p] = "save_account" /\ pc'[p] = "create"

\* C21: when two createPost flows for one account both find the credential near expiry
\* and refresh concurrently, each makes one refresh call (one of them redundant); the
\* stored credential and expiry always come together from one refresh response, never
\* one field from each, and no other field of the Account row (isActive, profile,
\* remote user id) changes.
C21_ConcurrentRefresh ==
    /\ [](\A p \in Pipes : calls[p].refresh <= 1)
    /\ [][\A i \in DOMAIN accounts :
            /\ AccountFrame(accounts'[i]) = AccountFrame(accounts[i])
            /\ << accounts'[i].accessToken, accounts'[i].tokenExpiresAt >> #
                  << accounts[i].accessToken, accounts[i].tokenExpiresAt >> =>
                  \E p \in Pipes :
                      /\ RefreshSaveStep(p)
                      /\ acct[p].id = i
                      /\ accounts'[i].accessToken = returned[p].credential
                      /\ accounts'[i].tokenExpiresAt = now + returned[p].expires_in]_vars

\* C21 witness: both flows refreshed the credential they had read (two refresh calls,
\* answered with different validities) and both saved; the row holds credential and
\* expiry of the refresh that was answered first and saved last
C21_Witness ==
    /\ \A p \in Pipes : calls[p].refresh = 1 /\ RefreshDone(p)
    /\ returned[1].credential = Token(2) /\ returned[1].expires_in = 60
    /\ returned[2].credential = Token(3) /\ returned[2].expires_in = 3
    /\ accounts[1].accessToken = Token(2) /\ accounts[1].tokenExpiresAt = now + 60
    /\ accounts[1].isActive

\* the in-memory state of flow p, its poll-attempt count included
Locals(p) ==
    << pc[p], dto[p], acct[p], post[p], attempt[p], maxAtt[p], writes[p], result[p],
       calls[p], lastCode[p], allInProgress[p], failedStep[p], returned[p] >>

\* this step is a step of flow q
StepOf(q) ==
    \/ FlowStep(q)
    \/ \E id \in RemoteUsers, m \in {IMAGE, REELS, Undefined} : GetAccount(q, id, m)

\* C22: concurrent createPost flows do not interfere: flows in flight hold different
\* Post rows, a Post row is written only by commits of the flow that created it, and a
\* step of one flow leaves the in-memory state of every other flow (status, containerId,
\* instagramMediaId, errorMessage, poll attempts) and its durable row as they are.
C22_NoInterference ==
    /\ [](\A p, q \in Pipes :
            (p # q /\ post[p].id # 0 /\ post[q].id # 0) => post[p].id # post[q].id)
    /\ [][/\ \A q \in Pipes :
               StepOf(q) =>
                   \A p \in Pipes \ {q} :
                       /\ Locals(p)' = Locals(p)
                       /\ HasRow(p) =>
                             /\ post[p].id \in DOMAIN posts'
                             /\ posts'[post[p].id] = posts[post[p].id]
                             /\ hist'[post[p].id] = hist[post[p].id]
          /\ \A i \in DOMAIN posts :
                (i \notin DOMAIN posts' \/ posts'[i] # posts[i]) =>
                    \E q \in Pipes : post[q].id = i /\ writes[q] # << >> /\ DbCommit(q)
         ]_vars

\* C22 witness: one flow waits for its status poll with its row in processing while the
\* other flow has ended with its own row failed
C22_Witness ==
    \E p, q \in Pipes :
        /\ p # q /\ HasRow(p) /\ HasRow(q)
        /\ pc[p] = "getContainerStatus" /\ Row(p).status = PROCESSING
        /\ pc[q] = "done" /\ Row(q).status = FAILED /\ Row(q).containerId # Null

\* C23: a createPost flow writes the Account row only in the refresh save of its first
\* step, before its Post exists: from the creation of the Post until the post is
\* terminal and the call has returned no step of the flow writes an Account row, so the
\* code of the orchestrator changes no isActive, profile field or remote user id.
C23_AccountWrittenOnlyByRefresh ==
    [][\A p \in Pipes :
          StepOf(p) =>
              /\ accounts' # accounts =>
                    /\ RefreshSaveStep(p)
                    /\ calls[p].refresh = 1
                    /\ post[p] = NoPost /\ ~HasRow(p) /\ writes[p] = << >>
                    /\ \A i \in DOMAIN accounts : i # acct[p].id => accounts'[i] = accounts[i]
              /\ pc[p] \notin {"idle", "done", "refreshTokenIfNeeded", "refresh_access_token",
                               "save_account"} =>
                    accounts' = accounts /\ tokensIssued' = tokensIssued]_vars

\* C23 witness: a flow that refreshed the credential at its first step has returned a
\* published post, the row still holding the refreshed credential
C23_Witness ==
    \E p \in Pipes :
        /\ pc[p] = "done" /\ result[p].kind = "returned" /\ calls[p].refresh = 1
        /\ Row(p).status = PUBLISHED
        /\ accounts[acct[p].id].accessToken = returned[p].credential

\* C24: getPost and listPosts change no Post or Account state and make no remote call;
\* getPost fails with not-found for an id without a row and otherwise returns the row's
\* current durable status; listPosts returns every row, newest first by creation time.
C24_ReadThrough ==
    /\ [](\A id \in 1..MaxRequests :
             IF id \in DOMAIN posts
               THEN /\ GetPostResult(id).kind = "returned"
                    /\ GetPostResult(id).postId = id
                    /\ GetPostResult(id).status = posts[id].status
                    /\ GetPostResult(id).instagramMediaId = posts[id].instagramMediaId
               ELSE /\ GetPostResult(id).kind = "HttpException"
                    /\ GetPostResult(id).statusCode = NOT_FOUND)
    /\ [](/\ Len(ListPostsResult) = Len(posts)
          /\ \A i \in DOMAIN posts :
                \E k \in DOMAIN ListPostsResult :
                    /\ ListPostsResult[k].postId = i
                    /\ ListPostsResult[k].status = posts[i].status
          /\ \A j, k \in DOMAIN ListPostsResult :
                j < k => ListPostsResult[j].postId > ListPostsResult[k].postId)
    /\ [][((\E id \in 1..MaxRequests : GetPost(id)) \/ ListPosts) =>
              UNCHANGED << accounts, posts, hist, writes, calls, remote, tokensIssued >>]_vars

\* C24 witness: two rows, the older published and the newer still being processed while
\* its flow already holds a later status in memory
C24_Witness ==
    /\ Len(posts) = 2
    /\ posts[1].status = PUBLISHED /\ posts[2].status = PROCESSING
    /\ ListPostsResult[1].postId = 2 /\ ListPostsResult[2].status = PUBLISHED
    /\ \E p \in Pipes : post[p].id = 2 /\ post[p].status # posts[2].status

\* C25: no operation removes an Account or a Post row: the sets of account ids and of
\* post ids only grow, a row keeps its id and a Post its owning account id; a
\* deactivation changes nothing but the active flag of its account, and the Posts of a
\* deactivated account stay.
C25_NoRowRemoved ==
    [][/\ DOMAIN accounts \subseteq DOMAIN accounts'
       /\ \A i \in DOMAIN accounts : accounts'[i].id = accounts[i].id /\ accounts[i].id = i
       /\ DOMAIN posts \subseteq DOMAIN posts'
       /\ \A i \in DOMAIN posts :
             /\ posts'[i].id = posts[i].id /\ posts[i].id = i
             /\ posts'[i].accountId = posts[i].accountId
       /\ \A id \in RemoteUsers :
             DeactivateAccount(id) =>
                 /\ posts' = posts /\ hist' = hist
                 /\ DOMAIN accounts' = DOMAIN accounts
                 /\ \A i \in DOMAIN accounts :
                       accounts'[i] = IF i = id /\ accounts[i].isActive
                                        THEN [accounts[i] EXCEPT !.isActive = FALSE]
                                        ELSE accounts[i]
      ]_vars

\* C25 witness: an account with a Post has been deactivated and another account is
\* still active
C25_Witness ==
    /\ Len(accounts) = 2
    /\ \E i \in DOMAIN posts :
          /\ posts[i].accountId \in DOMAIN accounts
          /\ ~accounts[posts[i].accountId].isActive
          /\ \E j \in DOMAIN accounts : accounts[j].isActive

\* C26: each of the three client operations signals a failure whenever the HTTP outcome
\* is non-success or the payload carries an error envelope, and returns a value
\* (container id, status code, media id) only when neither is the case.
C26_ClientSignalsFailure ==
    \A p \in Pipes :
        /\ returned[p].wire \in {"HTTP_ERROR", "ENVELOPE_200"} =>
              failedStep[p] \in {"createMediaContainer", "publishContainer"}
        /\ lastCode[p] \in {"HTTP_ERROR", Undefined} => failedStep[p] = "getContainerStatus"
        /\ pc[p] \in {"save_container_created", "save_published"} => returned[p].wire = "OK"
        /\ pc[p] = "sleep" => lastCode[p] \in ContainerStatusCode

\* the steps of handleCallback in the order of the code
CallbackSteps == << "shortLived", "longLived", "getProfile", "upsertAccount" >>

\* the error thrown when the remote step is answered with an error envelope
EnvelopeError(step) ==
    IF step = "shortLived" THEN ShortLivedFailedMsg
    ELSE IF step = "longLived" THEN LongLivedFailedMsg
    ELSE ProfileFailedMsg

\* C27: handleCallback performs the short-lived exchange, the long-lived upgrade, the
\* profile fetch and upsertAccount in that order, each at most once; once a remote step
\* is answered with an error envelope no later step is begun, that step's error is what
\* the callback throws, and the callback creates or modifies no Account row.
C27_CallbackInOrder ==
    /\ [](\A c \in Callbacks :
            /\ IsPrefix(oauth[c].steps, CallbackSteps)
            /\ oauth[c].envelope # "none" =>
                  /\ oauth[c].pc = "done"
                  /\ oauth[c].steps # << >>
                  /\ oauth[c].steps[Len(oauth[c].steps)] = oauth[c].envelope
                  /\ oauth[c].error = EnvelopeError(oauth[c].envelope))
    /\ [][\A c \in Callbacks :
            (oauth'[c] # oauth[c] /\ accounts' # accounts) =>
                /\ oauth[c].pc = "save" /\ oauth'[c].pc = "done"
                /\ oauth[c].steps = CallbackSteps
                /\ oauth'[c].envelope = "none" /\ oauth'[c].error = NoMsg]_vars

\* C27 witness: after a callback that connected an account, the next callback got an
\* error envelope from the profile fetch and ended with the account row as it was
C27_Witness ==
    \E c \in Callbacks :
        /\ oauth[c].envelope = "getProfile" /\ oauth[c].pc = "done"
        /\ oauth[c].accessToken = Token(2)
        /\ Len(accounts) = 1 /\ accounts[1].accessToken = Token(1) /\ accounts[1].isActive

\* the four non-terminal statuses
NonTerminal == {PENDING, CONTAINER_CREATED, PROCESSING, CONTAINER_FINISHED}

\* the durable status of post i changed directly from status s to failed
FailedFrom(i, s) ==
    /\ Len(hist[i]) >= 2
    /\ hist[i][Len(hist[i])] = FAILED
    /\ hist[i][Len(hist[i]) - 1] = s

\* C28: failed is reachable from each of the four non-terminal statuses: the durable
\* status of a post changes to failed only directly from pending, container_created,
\* processing or container_finished, by the commit of the write of the catch block
\* (from container_created only after a rejected save, no remote call being made in that
\* status), and for each of the four there is an execution with that change (the
\* witness).
C28_FailedFromNonTerminal ==
    /\ [](\A i \in DOMAIN posts :
            posts[i].status = FAILED => \E s \in NonTerminal : FailedFrom(i, s))
    /\ [][\A i \in DOMAIN posts :
            (posts'[i].status = FAILED /\ posts[i].status # FAILED) =>
                /\ posts[i].status \in NonTerminal
                /\ hist'[i] = Append(hist[i], FAILED)
                /\ \E p \in Pipes :
                      /\ post[p].id = i /\ pc[p] = "save_failed" /\ DbCommit(p)
                      /\ posts[i].status = CONTAINER_CREATED => failedStep[p] = "save"]_vars

\* C28 witness: four posts whose durable status changed to failed directly from
\* pending, container_created, processing and container_finished
C28_Witness ==
    /\ Len(posts) = 4
    /\ FailedFrom(1, CONTAINER_CREATED) /\ posts[1].errorMessage = SaveFailedMsg
    /\ FailedFrom(2, PENDING) /\ posts[2].errorMessage = CreationFailedMsg
    /\ FailedFrom(3, CONTAINER_FINISHED) /\ posts[3].errorMessage = PublishFailedMsg
    /\ FailedFrom(4, PROCESSING) /\ posts[4].errorMessage = StatusCheckFailedMsg

\* C29: the durable errorMessage of a post is non-null exactly when its durable status
\* is failed: it is null in pending, container_created, processing, container_finished
\* and published, and the write that sets the status to failed is the one write that
\* sets the message.
C29_MessageIffFailed ==
    /\ [](\A i \in DOMAIN posts : posts[i].errorMessage # NoMsg <=> posts[i].status = FAILED)
    /\ [][\A i \in DOMAIN posts :
            /\ (posts'[i].status = FAILED /\ posts[i].status # FAILED) =>
                  posts[i].errorMessage = NoMsg /\ posts'[i].errorMessage # NoMsg
            /\ posts'[i].errorMessage # posts[i].errorMessage =>
                  posts[i].status # FAILED /\ posts'[i].status = FAILED]_vars

\* C29 witness: a post failed on a terminal container status with its message stored,
\* next to a published post without a message
C29_Witness ==
    \E i, j \in DOMAIN posts :
        /\ posts[i].status = FAILED
        /\ posts[i].errorMessage = TerminalStatusMsg(posts[i].containerId, "EXPIRED")
        /\ hist[i] = << PENDING, CONTAINER_CREATED, PROCESSING, FAILED >>
        /\ posts[j].status = PUBLISHED /\ posts[j].errorMessage = NoMsg

\* the inputs of a post fixed at its creation
Inputs(entity) == << entity.mediaType, entity.mediaUrl, entity.caption, entity.accountId >>

\* C30: the inputs fixed at creation (media kind, media URL, caption, owning account id)
\* are never changed by a later step: every write after the first leaves the four fields
\* of the row as they are in the pending record, which has them from the request.
C30_InputsImmutable ==
    /\ [](\A p \in Pipes :
            /\ HasRow(p) =>
                  Inputs(Row(p)) = << DefaultMediaType(dto[p].mediaType), dto[p].mediaUrl,
                                     OrNull(dto[p].caption), acct[p].id >>
            /\ \A k \in DOMAIN writes[p] : Inputs(writes[p][k]) = Inputs(post[p]))
    /\ [][\A i \in DOMAIN posts : Inputs(posts'[i]) = Inputs(posts[i])]_vars

\* C30 witness: a published reel with its caption and its URL, all five writes done, next
\* to a failed post created without a caption
C30_Witness ==
    /\ Len(posts) = 2
    /\ Len(hist[1]) = 5 /\ posts[1].status = PUBLISHED
    /\ Inputs(posts[1]) = << REELS, MediaUrl(1), Caption(1), 1 >>
    /\ posts[2].status = FAILED /\ Len(hist[2]) = 4
    /\ Inputs(posts[2]) = << IMAGE, MediaUrl(2), Null, 1 >>

\* C31: createMediaContainer builds its request from the media kind: for reels the URL
\* is the video source and the marker REELS is set, for image the URL is the image
\* source and no marker is set; exactly one of the two source fields is present; the
\* caption parameter is present only when a caption was supplied, then with that
\* caption, and is never the empty string.
C31_RequestBuilt ==
    \A p \in Pipes :
        calls[p].create >= 1 =>
            LET r == calls[p].params
                kind == DefaultMediaType(dto[p].mediaType)
            IN  /\ r.access_token = acct[p].accessToken
                /\ kind = REELS =>
                      /\ r.video_url = dto[p].mediaUrl
                      /\ r.media_type = ReelsMarker
                      /\ r.image_url = NotSet
                /\ kind = IMAGE =>
                      /\ r.image_url = dto[p].mediaUrl
                      /\ r.media_type = NotSet
                      /\ r.video_url = NotSet
                /\ (r.image_url = NotSet) # (r.video_url = NotSet)
                /\ r.caption # EmptyString
                /\ r.caption # NotSet => dto[p].caption # Missing /\ r.caption = dto[p].caption
                /\ dto[p].caption \notin {Missing, EmptyString} => r.caption = dto[p].caption

\* C31 witness: the container-create request of a reel whose caption is the empty
\* string is in flight
C31_Witness ==
    \E p \in Pipes :
        /\ pc[p] = "createMediaContainer"
        /\ dto[p].mediaType = REELS /\ dto[p].caption = EmptyString
        /\ calls[p].params.video_url = MediaUrl(2)
        /\ calls[p].params.caption = NotSet

\* flow p is past getAccount and has not returned or thrown yet
InFlight(p) == pc[p] \notin {"idle", "done"}

\* C32: createPost checks that the account is active only at its first step: a
\* deactivation that commits while the flow is in flight changes nothing of the flow, a
\* flow in flight whose account is inactive can always take its next step, and
\* not-found is thrown by the first step only; so the flow makes its remaining remote
\* calls and the post can reach published while the account is inactive (the witness).
C32_ActiveCheckedOnce ==
    /\ [](\A p \in Pipes :
            /\ (InFlight(p) /\ ~accounts[acct[p].id].isActive) => ENABLED FlowStep(p)
            /\ (pc[p] = "done" /\ result[p].kind = "NotFoundException") =>
                  calls[p] = NoCalls /\ post[p] = NoPost)
    /\ [][\A id \in RemoteUsers :
            DeactivateAccount(id) =>
                /\ \A p \in Pipes : Locals(p)' = Locals(p)
                /\ posts' = posts /\ hist' = hist /\ remote' = remote]_vars

\* C32 witness: the published write of a flow is durable and the flow has not returned
\* yet, its account having been deactivated since the flow read it
C32_Witness ==
    \E p \in Pipes :
        /\ pc[p] = "save_published" /\ HasRow(p) /\ Row(p).status = PUBLISHED
        /\ acct[p].isActive /\ ~accounts[acct[p].id].isActive
        /\ calls[p].publish = 1 /\ Row(p).accountId = acct[p].id

\* the published save of flow p was rejected after the remote publish succeeded
PublishedSaveRejected(p) == returned[p].media # Null /\ failedStep[p] = "save"

\* C33: when the remote publish succeeds and the write that records published is
\* rejected, the catch block marks the post failed with the persistence error as message
\* and with instagramMediaId set, and that is the record written, although the media is
\* live on the remote platform; so durable status failed does not imply that the remote
\* publish never succeeded (the witness).
C33_PublishedWriteRejected ==
    \A p \in Pipes :
        PublishedSaveRejected(p) =>
            /\ calls[p].publish = 1
            /\ returned[p].media \in remote.media
            /\ pc[p] \in {"save_failed", "done"}
            /\ post[p].status = FAILED
            /\ post[p].errorMessage = SaveFailedMsg
            /\ post[p].instagramMediaId = returned[p].media
            /\ \A k \in DOMAIN writes[p] : writes[p][k] = post[p]
            /\ Row(p).status \in {CONTAINER_FINISHED, FAILED}
            /\ Row(p).status = FAILED =>
                  /\ Row(p) = post[p]
                  /\ FailedFrom(post[p].id, CONTAINER_FINISHED)
            /\ (pc[p] = "done" /\ result[p].kind = "HttpException") =>
                  Row(p).status = FAILED /\ result[p].detail = SaveFailedMsg

\* C33 witness: createPost threw the gateway error for a post durably failed whose
\* instagramMediaId is a media the remote platform has published
C33_Witness ==
    \E p \in Pipes :
        /\ PublishedSaveRejected(p)
        /\ pc[p] = "done" /\ result[p].kind = "HttpException"
        /\ Row(p).status = FAILED
        /\ Row(p).instagramMediaId \in remote.media
        /\ Row(p).errorMessage = SaveFailedMsg

\* C34: refreshTokenIfNeeded writes back the whole account object the flow read
\* earlier: its save makes the row equal to that object with the refreshed credential
\* and expiry, whatever the row holds by then, so a reconnect that committed between the
\* flow's read and this save loses its credential and expiry (the witness).
C34_RefreshOverwrites ==
    [][\A p \in Pipes :
          RefreshSaveStep(p) =>
              /\ accounts'[acct[p].id] = acct[p]
              /\ accounts'[acct[p].id].accessToken = returned[p].credential
              /\ accounts'[acct[p].id].tokenExpiresAt = now + returned[p].expires_in
              /\ \A i \in DOMAIN accounts : i # acct[p].id => accounts'[i] = accounts[i]]_vars

\* C34 witness: the account was connected (first credential), the one flow read it and
\* got the second credential from the refresh with 3 days of validity, a reconnect
\* stored the third credential, and the refresh save has put the second credential and
\* its expiry back
C34_Witness ==
    \E p \in Pipes :
        /\ pc[p] = "create" /\ requests = 1 /\ calls[p].refresh = 1
        /\ connects = 2 /\ tokensIssued = 3 /\ Len(accounts) = 1
        /\ returned[p].credential = Token(2) /\ returned[p].expires_in = 3
        /\ accounts[1].accessToken = Token(2)
        /\ accounts[1].tokenExpiresAt = now + 3

\* callback c is an upsertAccount that found no row and is about to insert
AboutToInsert(c) == oauth[c].pc = "save" /\ oauth[c].existing = NoAccount

\* C35: two upsertAccount calls for one not-yet-known remote user that both look up
\* before either saves never leave two rows for that remote user: the insert made
\* second is rejected by the unique constraint, its callback ends with that error and
\* writes nothing, and one row remains.
C35_UniqueRemoteUser ==
    /\ [](\A i, j \in DOMAIN accounts : accounts[i].igUserId = accounts[j].igUserId => i = j)
    /\ [][\A c \in Callbacks :
            (AboutToInsert(c) /\ UpsertAccountSave(c)) =>
                IF FindByIgUserId(oauth[c].profile.id) # {}
                  THEN /\ accounts' = accounts
                       /\ oauth'[c].pc = "done" /\ oauth'[c].error = UniqueViolationMsg
                  ELSE /\ Len(accounts') = Len(accounts) + 1
                       /\ oauth'[c].error = NoMsg
                       /\ Cardinality(RowsOf(accounts', oauth[c].profile.id)) = 1]_vars

\* C35 witness: two callbacks for the same new remote user both found no row; one
\* inserted the row, the other ended with the unique-constraint error, one row remains
C35_Witness ==
    \E c, d \in Callbacks :
        /\ c # d /\ oauth[c].pc = "done" /\ oauth[d].pc = "done"
        /\ oauth[c].existing = NoAccount /\ oauth[d].existing = NoAccount
        /\ oauth[c].profile.id = oauth[d].profile.id /\ oauth[c].profile.id # 0
        /\ oauth[c].error = NoMsg /\ oauth[d].error = UniqueViolationMsg
        /\ Len(accounts) = 1 /\ accounts[1].accessToken = oauth[c].accessToken

\* the refresh call of flow p was answered with an error envelope
RefreshFailed(p) == pc[p] = "done" /\ result[p].detail = RefreshFailedMsg

PastFirstStep(p) ==
    pc[p] \notin {"idle", "done", "refreshTokenIfNeeded", "refresh_access_token",
                  "save_account"}

\* C37: within one createPost flow the container-create call, every status call and the
\* publish call carry the credential of the account value the first step returned, and
\* the container-create and the publish call carry its owner id (a status call is
\* addressed to the container and carries no owner id); every call made is among the
\* recorded ones.  After the first step the flow's account value never changes, whatever
\* another flow or a reconnect writes to the account row in the meantime.
C37_SameCredentialAndOwner ==
    /\ [](\A p \in Pipes :
            /\ \A c \in calls[p].sent :
                  /\ c[2] = acct[p].accessToken
                  /\ Len(c) = 3 => c[3] = acct[p].igUserId
            /\ calls[p].create >= 1 =>
                  CreateCall(acct[p].igUserId, acct[p].accessToken) \in calls[p].sent
            /\ calls[p].status >= 1 => StatusCall(acct[p].accessToken) \in calls[p].sent
            /\ calls[p].publish >= 1 =>
                  PublishCall(acct[p].igUserId, acct[p].accessToken) \in calls[p].sent
            /\ Cardinality({c[2] : c \in calls[p].sent}) <= 1)
    /\ [][\A p \in Pipes : PastFirstStep(p) => acct'[p] = acct[p]]_vars

\* the publish call of a flow is in flight after a status call, with the credential the
\* flow read at its first step, while the account row holds a later credential
C37_Witness ==
    \E p \in Pipes :
        /\ pc[p] = "publishContainer"
        /\ calls[p].create = 1 /\ calls[p].status >= 1 /\ calls[p].publish = 1
        /\ Cardinality(calls[p].sent) = 3
        /\ accounts[acct[p].id].accessToken # acct[p].accessToken
        /\ PublishCall(acct[p].igUserId, acct[p].accessToken) \in calls[p].sent


\* the status codes of the remote platform other than FINISHED, ERROR and EXPIRED
OtherCodes == ContainerStatusCode \ {"FINISHED", "ERROR", "EXPIRED"}

\* C38: a status response with IN_PROGRESS or PUBLISHED leaves the post in processing (in
\* memory and in its row, no write issued), does not end the flow, and starts one sleep;
\* when the sleep ends exactly one attempt is consumed and either the next status call
\* is made or, the budget being used up, the flow fails with the did-not-finish message.
\* While a flow sleeps it has slept once per status call made, and while a status call
\* is in flight once per earlier status call.
C38_OtherCodesSleepAndRetry ==
    /\ [](\A p \in Pipes :
            /\ pc[p] = "sleep" =>
                  /\ lastCode[p] \in OtherCodes
                  /\ calls[p].status = attempt[p] + 1 /\ calls[p].sleep = calls[p].status
                  /\ post[p].status = PROCESSING /\ Row(p).status = PROCESSING
            /\ pc[p] = "getContainerStatus" =>
                  calls[p].status = attempt[p] + 1 /\ calls[p].sleep = attempt[p])
    /\ [][\A p \in Pipes :
            /\ \A code \in OtherCodes : GetContainerStatusReturn(p, code) =>
                  /\ post[p].status = PROCESSING /\ post'[p] = post[p]
                  /\ posts' = posts /\ writes'[p] = writes[p] /\ result'[p] = result[p]
                  /\ pc'[p] = "sleep"
                  /\ calls'[p].sleep = calls[p].sleep + 1
                  /\ calls'[p].status = calls[p].status
                  /\ attempt'[p] = attempt[p]
            /\ (pc[p] = "sleep" /\ pc'[p] # "sleep") =>
                  /\ attempt'[p] = attempt[p] + 1
                  /\ calls'[p].sleep = calls[p].sleep
                  /\ IF attempt[p] + 1 < maxAtt[p]
                     THEN /\ pc'[p] = "getContainerStatus"
                          /\ calls'[p].status = calls[p].status + 1
                          /\ post'[p] = post[p]
                     ELSE /\ pc'[p] = "save_failed"
                          /\ calls'[p].status = calls[p].status
                          /\ post'[p].status = FAILED
                          /\ post'[p].errorMessage =
                                DidNotFinishMsg(post[p].containerId, maxAtt[p])]_vars

\* a flow polled three times, the last answer being PUBLISHED, slept after each answer
\* and then failed with the budget used up
C38_Witness ==
    \E p \in Pipes :
        /\ pc[p] = "done" /\ failedStep[p] = "budget"
        /\ lastCode[p] = "PUBLISHED"
        /\ maxAtt[p] = 3 /\ calls[p].status = 3 /\ calls[p].sleep = 3
        /\ calls[p].publish = 0
        /\ Row(p).status = FAILED


\* the polling loop and what follows it: a status call in flight, a sleep, the
\* container-finished save, the publish call, the published save
PollingOrLater ==
    {"getContainerStatus", "sleep", "save_container_finished", "publishContainer",
     "save_published"}

\* C39: with a base attempt count of 0 or less no flow makes a status call, sleeps or
\* calls publish, and a flow whose container was created ends failed with the
\* did-not-finish message naming the container and the computed budget, its row having
\* been pending, container_created, processing and failed in this order.
C39_NoBudgetNoPoll ==
    maxPollingAttempts <= 0 =>
        \A p \in Pipes :
            /\ calls[p].status = 0 /\ calls[p].sleep = 0 /\ calls[p].publish = 0
            /\ pc[p] \notin PollingOrLater
            /\ lastCode[p] = "none"
            /\ pc[p] = "save_processing" => post[p].status = PROCESSING
            /\ (pc[p] = "done" /\ returned[p].container # Null) =>
                  /\ failedStep[p] = "budget"
                  /\ maxAtt[p] = MaxAttempts(post[p].mediaType) /\ maxAtt[p] <= 0
                  /\ Row(p).status = FAILED
                  /\ Row(p).containerId = returned[p].container
                  /\ Row(p).instagramMediaId = Null
                  /\ Row(p).errorMessage = DidNotFinishMsg(returned[p].container, maxAtt[p])
                  /\ hist[post[p].id] = << PENDING, CONTAINER_CREATED, PROCESSING, FAILED >>
                  /\ result[p] = BadGateway(Row(p))

\* a reel with a negative base attempt count: container created, no status call, failed
C39_Witness ==
    \E p \in Pipes :
        /\ maxPollingAttempts < 0
        /\ pc[p] = "done" /\ returned[p].container # Null
        /\ post[p].mediaType = REELS /\ maxAtt[p] = maxPollingAttempts * ReelsMultiplier
        /\ failedStep[p] = "budget" /\ calls[p].create = 1 /\ calls[p].status = 0
        /\ Row(p).status = FAILED

\* the same with the base attempt count 0
C39_WitnessZero ==
    \E p \in Pipes :
        /\ maxPollingAttempts = 0
        /\ pc[p] = "done" /\ returned[p].container # Null
        /\ failedStep[p] = "budget" /\ calls[p].create = 1 /\ calls[p].status = 0
        /\ Row(p).status = FAILED

====
